---------------------------- MODULE Spec2Model ----------------------------
(***************************************************************************)
(* Story / overview generation pipeline of the TRAJECTORY career-path app  *)
(* (src/src/server/api/routers/stories.ts).                                *)
(*                                                                         *)
(* The file holds two revisions of the stories router: the earlier one     *)
(* (lines 1-758) answers a missing credential and an empty search with a   *)
(* placeholder story, the later one (lines 760-2167) answers both with the *)
(* empty array, adds the relevance filter and the overview procedure.      *)
(* The variable `variant` says which revision serves the request.          *)
(*                                                                         *)
(* The helpers of the pipeline (selector, url classification, story        *)
(* builder, AI summarizer, search client, relevance filter, overview       *)
(* fallback, the page's overview rendering) also have specifications of    *)
(* their own, which apply them to inputs drawn from bounded sets, and      *)
(* SpecPaths models concurrent calls of generatePathsForProfile            *)
(* (src/src/server/api/routers/recommendation.ts).  SpecActions,           *)
(* SpecPomodoro and SpecTracker model the planner's ActionsProvider,       *)
(* Pomodoro widget and TimeTracker widget.                                 *)
(*                                                                         *)
(* Strings the code builds by interpolation are modelled as records or     *)
(* sequences of their parts; a text is modelled by the set of phrases that *)
(* occur in it.                                                            *)
(***************************************************************************)
EXTENDS Integers, Sequences, FiniteSets, TLC

(***************************************************************************)
(* Bounds of the model                                                     *)
(***************************************************************************)
\* longest provider payload (the client never truncates to max_results)
MaxResults == 10
\* longest provider payload whose items are of mixed kinds
MaxMixed == 2
\* largest limit handed to the selector in the selector's own specification
MaxLimit == 4
\* longest list handed to the selector in the selector's own specification
MaxTotal == 11
\* largest page number of a url handed to the two classifications
MaxPage == 4
\* longest list handed to the story builder in the builder's own specification
MaxBuild == 10
\* longest stories array of an AI response in the summarizer's own specification
MaxEntries == 2
\* largest index an entry of that array carries
MaxIndex == 3
\* longest list handed to the relevance filter in the filter's own specification
MaxFilter == 2
\* number of concurrent generatePathsForProfile calls
MaxCalls == 2
MaxItems == 3
MaxTitles == 2
MaxOverviewLen == 5
MaxActionCalls == 3
MaxSessions == 5
MaxPomodoros == 2

(***************************************************************************)
(* Program constants                                                       *)
(***************************************************************************)
\* generateForProfile: webSearchForStories({ limit: 8 })
SearchLimit == 8
\* generateForProfile: selectSearchResultsForPath({ limit: 4 })
SelectLimit == 4
\* generateOverviewForProfile: filteredResults.slice(0, Math.min(6, ...))
OverviewTop == 6
\* pathRank: z.number().optional() -- the value standing for "not given"
Absent == 0

Ranks == {Absent, 1, 2, 3}

Min(a, b) == IF a <= b THEN a ELSE b
Max(a, b) == IF a >= b THEN a ELSE b

\* Array.prototype.slice(start, end) for 0 <= start, 0 <= end, on a 1-based
\* sequence: the elements at 0-based positions start .. end-1 that exist.
Slice(s, start, end) ==
  LET hi == Min(end, Len(s))
  IN  IF start >= hi THEN << >>
      ELSE [i \in 1..(hi - start) |-> s[start + i]]

\* Array.prototype.filter
RECURSIVE FilterSeq(_, _)
FilterSeq(s, keep) ==
  IF s = << >> THEN << >>
  ELSE IF Head(s) \in keep THEN <<Head(s)>> \o FilterSeq(Tail(s), keep)
       ELSE FilterSeq(Tail(s), keep)

Range(s) == {s[i] : i \in 1..Len(s)}

(***************************************************************************)
(* Path-aware selector                                                     *)
(***************************************************************************)
\* the selector taking the path-specific slices as soon as total > limit
SelectNoBoundary(searchResults, limit, pathRank) ==
  LET total == Len(searchResults)
  IN  IF pathRank = 2 /\ total > limit
      THEN Slice(searchResults, total \div 3, (total \div 3) + limit)
      ELSE IF pathRank = 3 /\ total > limit
      THEN Slice(searchResults, Max(total - limit - 2, 0),
                 Max(total - limit - 2, 0) + limit)
      ELSE Slice(searchResults, 0, limit)

\* the selector starting the rank-2 slice one result late
SelectFromSecond(searchResults, limit, pathRank) ==
  LET total == Len(searchResults)
  IN  IF pathRank = 2 /\ total > limit * 2
      THEN Slice(searchResults, (total \div 3) + 1, (total \div 3) + 1 + limit)
      ELSE IF pathRank = 3 /\ total > limit * 2
      THEN Slice(searchResults, Max(total - limit - 2, 0),
                 Max(total - limit - 2, 0) + limit)
      ELSE Slice(searchResults, 0, limit)

\* the rank branches taken as soon as there are more results than the limit
SelectOverLimit(searchResults, limit, pathRank) ==
  LET total == Len(searchResults)
  IN  IF pathRank = 2 /\ total > limit
      THEN Slice(searchResults, total \div 3, (total \div 3) + limit)
      ELSE IF pathRank = 3 /\ total > limit
      THEN Slice(searchResults, Max(total - limit - 2, 0),
                 Max(total - limit - 2, 0) + limit)
      ELSE Slice(searchResults, 0, limit)

\* selectSearchResultsForPath({ searchResults, limit, pathRank })
SelectSearchResultsForPath(searchResults, limit, pathRank) ==
  LET total == Len(searchResults)
  IN  IF pathRank = 2 /\ total > limit * 2
      THEN Slice(searchResults, total \div 3, (total \div 3) + limit)
      ELSE IF pathRank = 3 /\ total > limit * 2
      THEN Slice(searchResults, Max(total - limit - 2, 0),
                 Max(total - limit - 2, 0) + limit)
      ELSE Slice(searchResults, 0, limit)


(***************************************************************************)
(* Data                                                                    *)
(***************************************************************************)
\* a string built by interpolation: its fixed part and the number put in it
Str(s, n) == [s |-> s, n |-> n]
EmptyStr == Str("", 0)
\* a url: its host and the number of the page it names
Url(host, n) == [host |-> host, n |-> n]
EmptyUrl == Url("", 0)

\* the kinds of item a provider payload is made of
ItemKinds ==
  {"career", "video", "linkedin", "handbook", "quantum", "untitled", "mistyped"}

\* item number i of a payload, of the given kind: what the provider sent
\* (title?, url?, content?) and the phrases its title and content contain.
\* The payload is JSON cast to the expected type without validation: a
\* "mistyped" item carries a number where the title string is expected, a
\* "badcontent" item a number where the content string is expected, and a
\* "nullitem" is a null in place of the item object.
ItemOf(kind, i) ==
  [ id      |-> i,
    isObject |-> kind # "nullitem",
    contentIsString |-> kind # "badcontent",
    title   |-> CASE kind = "untitled" -> EmptyStr
                  [] kind = "mistyped" -> Str("#number", i)
                  [] OTHER -> Str("title", i),
    titleIsString |-> kind # "mistyped",
    url     |-> CASE kind = "video" -> Url("YouTube.com", i)
                  [] kind = "nourl" -> EmptyUrl
                  [] kind = "linkedin" -> Url("linkedin.com", i)
                  [] OTHER -> Url("example.org", i),
    content |-> IF kind = "video" THEN EmptyStr ELSE Str("content", i),
    hasContent |-> kind # "video",
    marks   |-> CASE kind = "career" -> {"career"}
                  [] kind = "video" -> {"internship"}
                  [] kind = "linkedin" -> {"marketing"}
                  [] kind = "handbook" -> {"student-parent handbook", "career"}
                  [] kind = "quantum" -> {"quantum computing", "job"}
                  [] OTHER -> {"career"} ]

\* payloads: every sequence of kinds up to MaxMixed items, and the payloads of
\* up to MaxResults items that all pass the filters
RECURSIVE KindSeqs(_)
KindSeqs(n) ==
  IF n = 0 THEN {<< >>}
  ELSE LET shorter == KindSeqs(n - 1)
       IN  shorter \cup {Append(s, k) : s \in {t \in shorter : Len(t) = n - 1},
                                        k \in ItemKinds}

Payloads ==
  {[i \in 1..Len(ks) |-> ItemOf(ks[i], i)] : ks \in KindSeqs(MaxMixed)}
  \cup {[i \in 1..n |-> ItemOf("career", i)] : n \in (MaxMixed + 1)..MaxResults}

\* the stored profiles (db.userProfile), by id
Profiles ==
  [ p1 |-> [n |-> 1, currentStatus |-> "student", interests |-> <<"sales">>,
            stage |-> "exploring", timeline |-> "6 months", extraInfo |-> << >>],
    p2 |-> [n |-> 2, currentStatus |-> "engineer",
            interests |-> <<"quantum", "marketing">>,
            stage |-> "switching", timeline |-> "", extraInfo |-> << >>] ]

ProfileIds == {"p1", "p2", "unknown-id"}

\* db.userProfile.findUnique({ where: { id } }): the profile or null
NoProfile == [n |-> 0, currentStatus |-> "", interests |-> << >>,
              stage |-> "", timeline |-> "", extraInfo |-> << >>]
FindUnique(id) == IF id \in DOMAIN Profiles THEN Profiles[id] ELSE NoProfile

(***************************************************************************)
(* Texts                                                                   *)
(***************************************************************************)
\* phrase a contains phrase b as a substring (the pairs that occur here)
SubPhrases ==
  { <<"quantum computing", "quantum">>, <<"student-parent handbook", "handbook">>,
    <<"student catalog", "catalog">>, <<"jobs", "job">>,
    <<"internships", "internship">>, <<"business development", "business">>,
    <<"sales development representative", "sales">>,
    <<"retail", "ai">>, <<"artificial intelligence", "ai">> }

PhraseIncludes(a, b) == a = b \/ <<a, b>> \in SubPhrases

\* String.prototype.includes / RegExp.test on a text given by its phrases
TextIncludes(marks, p) == \E m \in marks : PhraseIncludes(m, p)
TextIncludesAny(marks, ps) == \E p \in ps : TextIncludes(marks, p)

\* String.prototype.toLowerCase on the hosts that occur here
ToLowerCase(h) == CASE h = "YouTube.com" -> "youtube.com"
                    [] h = "LinkedIn.com" -> "linkedin.com"
                    [] h = "Vimeo.com" -> "vimeo.com"
                    [] h = "CA.LinkedIn.com" -> "ca.linkedin.com"
                    [] OTHER -> h

(***************************************************************************)
(* Search client                                                           *)
(***************************************************************************)
SearchFailures == {"exception", "http-error", "bad-json", "no-results-array"}

\* what the provider may answer: a failure of some kind or a payload
SearchResponses ==
  {[kind |-> k, results |-> << >>] : k \in SearchFailures}
  \cup {[kind |-> "ok", results |-> p] : p \in Payloads}

\* reading r.title of a null item in the filter, or calling slice on a
\* content that is not a string in the map, raises a TypeError
WebSearchThrows(items) ==
  \/ \E r \in Range(items) : ~ r.isObject
  \/ \E r \in Range(items) :
        r.title # EmptyStr /\ r.url # EmptyUrl /\ r.hasContent /\ ~ r.contentIsString

\* every item of the payload mapped, none filtered out
WebSearchKeepAll(resp) ==
  [i \in 1..Len(resp.results) |->
     [ id |-> resp.results[i].id, title |-> resp.results[i].title,
       titleIsString |-> resp.results[i].titleIsString, url |-> resp.results[i].url,
       snippet |-> resp.results[i].content, hasSnippet |-> resp.results[i].hasContent,
       marks |-> resp.results[i].marks ]]

\* webSearchForStories: [] on any failure (the catch included), else the
\* items with title and url, in the provider's order, mapped to
\* { title, url, snippet }
WebSearchForStories(resp) ==
  IF resp.kind # "ok" THEN << >>
  ELSE IF WebSearchThrows(resp.results) THEN << >>
  ELSE LET items == resp.results
           kept == FilterSeq(items, {r \in Range(items) :
                                       r.title # EmptyStr /\ r.url # EmptyUrl})
       IN  [i \in 1..Len(kept) |->
              [ id |-> kept[i].id, title |-> kept[i].title,
                titleIsString |-> kept[i].titleIsString, url |-> kept[i].url,
                snippet |-> kept[i].content, hasSnippet |-> kept[i].hasContent,
                marks |-> kept[i].marks ]]

(***************************************************************************)
(* Relevance filters                                                       *)
(***************************************************************************)
mustHaveKeywords ==
  { "career", "job", "jobs", "entry level", "internship", "internships", "sales",
    "business", "business development", "account executive",
    "sales development representative", "bdr", "sdr" }

badPatterns ==
  { "student catalog", "catalog", "handbook", "version ii", "technical college",
    "student-parent handbook", "policies and procedures", "press release",
    "global releases" }

techKeywords ==
  {"quantum", "machine learning", "deep learning", "ai model", "neural network"}

userTechKeywords ==
  {"quantum", "ai", "artificial intelligence", "machine learning"}

\* (r.title || "").toLowerCase() in a filter callback throws a TypeError when
\* some title is not a string; the callback runs for every result
ToLowerCaseThrows(searchResults) ==
  \E r \in Range(searchResults) : ~ r.titleIsString

\* the interest tokens shorter than 3 characters (tok.length >= 3 fails)
ShortTokens == {"ai", "pr", "hr"}

\* the inline filter of generateForProfile (later revision): drops only the
\* quantum-computing / culinary-institute results
LightFilter(searchResults) ==
  FilterSeq(searchResults,
            {r \in Range(searchResults) :
               ~ TextIncludesAny(r.marks, {"quantum computing", "culinary institute"})})

\* the filter testing the career keywords before the noise patterns
FilterCareerFirst(searchResults, profile) ==
  LET Keep(r) ==
        \/ TextIncludesAny(r.marks, mustHaveKeywords)
        \/ /\ ~ TextIncludesAny(r.marks, badPatterns)
           /\ \E tok \in Range(profile.interests) :
                 tok \notin ShortTokens /\ TextIncludes(r.marks, tok)
  IN  FilterSeq(searchResults, {r \in Range(searchResults) : Keep(r)})

\* filterSearchResultsForRelevance({ searchResults, profile })
FilterSearchResultsForRelevance(searchResults, profile) ==
  LET interestTokens == Range(profile.interests)
      userMentionsTech ==
        \/ TextIncludesAny(Range(profile.interests), userTechKeywords)
        \/ TextIncludesAny(Range(profile.extraInfo), userTechKeywords)
      Keep(r) ==
        /\ ~ TextIncludesAny(r.marks, badPatterns)
        /\ ~ (TextIncludesAny(r.marks, techKeywords) /\ ~ userMentionsTech)
        /\ \/ TextIncludesAny(r.marks, mustHaveKeywords)
           \/ \E tok \in interestTokens :
                 tok \notin ShortTokens /\ TextIncludes(r.marks, tok)
  IN  FilterSeq(searchResults, {r \in Range(searchResults) : Keep(r)})


(***************************************************************************)
(* Stories                                                                 *)
(***************************************************************************)
StoryId(kind, a, b) == [kind |-> kind, a |-> a, b |-> b]

pathRankLabel(pathRank) ==
  IF pathRank = 2 THEN "Project & Portfolio Heavy"
  ELSE IF pathRank = 3 THEN "Unconventional / Cross-Discipline"
  ELSE "Conventional"

\* url text a contains the domain b as a substring (the pairs that occur here)
SubUrls ==
  { <<"m.youtube.com", "youtube.com">>, <<"example.org/?ref=vimeo.com", "vimeo.com">>,
    <<"ca.linkedin.com", "linkedin.com">>,
    <<"example.org/?u=linkedin.com&v=youtu.be", "linkedin.com">>,
    <<"example.org/?u=linkedin.com&v=youtu.be", "youtu.be">> }

\* url.includes(domain) on the lower-cased url
UrlIncludes(url, domain) ==
  ToLowerCase(url.host) = domain \/ <<ToLowerCase(url.host), domain>> \in SubUrls

\* inferSourceType(url)
inferSourceType(url) ==
  IF UrlIncludes(url, "youtube.com") \/ UrlIncludes(url, "youtu.be")
     \/ UrlIncludes(url, "vimeo.com")
  THEN "video"
  ELSE IF UrlIncludes(url, "linkedin.com") THEN "linkedin"
  ELSE "article"

\* the inline classification without the lower-casing of the url
BuilderSourceTypeCaseSensitive(url) ==
  IF url.host \in {"youtube.com", "youtu.be", "vimeo.com"} THEN "video"
  ELSE IF url.host = "linkedin.com" THEN "linkedin"
  ELSE "article"

\* the inline classification testing linkedin.com before the video domains
BuilderSourceTypeLinkedinFirst(url) ==
  IF UrlIncludes(url, "linkedin.com") THEN "linkedin"
  ELSE IF UrlIncludes(url, "youtube.com") \/ UrlIncludes(url, "youtu.be")
          \/ UrlIncludes(url, "vimeo.com")
  THEN "video"
  ELSE "article"

\* the inline classification of buildStoriesFromSearchResults
BuilderSourceType(url) ==
  IF UrlIncludes(url, "youtube.com") \/ UrlIncludes(url, "youtu.be")
     \/ UrlIncludes(url, "vimeo.com")
  THEN "video"
  ELSE IF UrlIncludes(url, "linkedin.com") THEN "linkedin"
  ELSE "article"

\* the builder skipping the first selected result
buildStoriesSkipFirst(profile, searchResults, limit, pathRank) ==
  LET selected == Slice(SelectSearchResultsForPath(searchResults, limit, pathRank),
                        1, limit)
  IN  [index \in 1..Len(selected) |->
         LET r == selected[index]
         IN  [ id           |-> [kind |-> "search", a |-> index, b |-> 0],
               title        |-> r.title,
               sourceUrl    |-> r.url,
               sourceType   |-> "article",
               shortSummary |-> r.snippet,
               whyItMatches |-> [s |-> "", n |-> profile.n],
               from         |-> r.id ]]

\* the builder dropping the selected results that have no title
buildStoriesDropUntitled(profile, searchResults, limit, pathRank) ==
  LET all == SelectSearchResultsForPath(searchResults, limit, pathRank)
      selected == FilterSeq(all, {r \in Range(all) : r.title # EmptyStr})
  IN  [index \in 1..Len(selected) |->
         LET r == selected[index]
         IN  [ id           |-> [kind |-> "search", a |-> index, b |-> 0],
               title        |-> r.title,
               sourceUrl    |-> IF r.url # EmptyUrl THEN r.url
                                ELSE [host |-> "example.com", n |-> 0],
               sourceType   |-> "article",
               shortSummary |-> IF r.hasSnippet THEN r.snippet
                                ELSE [s |-> "A real career story pulled from the web", n |-> 0],
               whyItMatches |-> [s |-> "", n |-> profile.n],
               from         |-> r.id ]]

\* buildStoriesFromSearchResults({ profile, searchResults, limit, pathRank }):
\* selects again, then maps each selected result to a story
buildStoriesFromSearchResults(profile, searchResults, limit, pathRank) ==
  LET selected == SelectSearchResultsForPath(searchResults, limit, pathRank)
  IN  [index \in 1..Len(selected) |->
         LET r == selected[index]
         IN  [ id           |-> StoryId("search", index, 0),
               title        |-> IF r.title # EmptyStr THEN r.title
                                ELSE Str("Career story", 0),
               sourceUrl    |-> IF r.url # EmptyUrl THEN r.url
                                ELSE Url("example.com", 0),
               sourceType   |-> BuilderSourceType(r.url),
               shortSummary |-> IF r.hasSnippet THEN r.snippet
                                ELSE Str("A real career story pulled from the web", 0),
               whyItMatches |-> Str(pathRankLabel(pathRank), profile.n),
               from         |-> r.id ]]

\* getPlaceholderStory(reason)
getPlaceholderStory(reason) ==
  [ id           |-> StoryId(CASE reason = "no-keys" -> "placeholder-no-keys"
                               [] reason = "no-search-results" ->
                                    "placeholder-no-search-results"
                               [] OTHER -> "placeholder-gemini-failed", 0, 0),
    title        |-> Str(reason, 0),
    sourceUrl    |-> Url("trajectory.app", 0),
    sourceType   |-> "other",
    shortSummary |-> Str(reason, 0),
    whyItMatches |-> Str(reason, 0),
    from         |-> 0 ]

(***************************************************************************)
(* AI summarizer                                                           *)
(***************************************************************************)
GeminiFailures == {"exception", "http-error", "empty-text", "bad-json", "no-stories-array"}

\* one entry of the provider's stories array. The parsed JSON is only cast
\* to the expected type: an entry may be null, and its index may be a number,
\* a numeric string ("1"), a fraction (1.5) or missing.
Entry(index, summary, why) ==
  [isNull |-> FALSE, indexKind |-> "int", index |-> index,
   shortSummary |-> summary, whyItMatches |-> why]
GoodEntry(index) == Entry(index, Str("summary", index), Str("why", index))
NullEntry == [isNull |-> TRUE, indexKind |-> "missing", index |-> 0,
              shortSummary |-> EmptyStr, whyItMatches |-> EmptyStr]
\* an entry that is good but for the kind of its index
EntryWithIndex(kind, index) == [GoodEntry(index) EXCEPT !.indexKind = kind]

\* the stories arrays the provider may answer for n results
EntryLists(n) ==
  { << >>, <<GoodEntry(0)>>, <<GoodEntry(n)>>, <<GoodEntry(-1), GoodEntry(0)>>,
    <<Entry(0, EmptyStr, Str("why", 0))>>, <<GoodEntry(0), GoodEntry(0)>>,
    [i \in 1..n |-> GoodEntry(n - i)],
    <<GoodEntry(0), NullEntry>>, <<EntryWithIndex("missing", 0), GoodEntry(0)>> }

\* what the provider may answer for n results; "fenced" is valid JSON wrapped
\* in code-fence markers
GeminiResponses(n) ==
  {[kind |-> k, stories |-> << >>] : k \in GeminiFailures}
  \cup {[kind |-> "json", stories |-> es] : es \in EntryLists(n)}
  \cup {[kind |-> "fenced", stories |-> <<GoodEntry(0)>>]}

\* the loop throws a TypeError: story.index of a null entry, or, in the
\* earlier revision (which lacks the !r test), r.url of results[index] for an
\* index that names no element though it passes the range test
GeminiLoopThrows(entries, revision) ==
  \E i \in 1..Len(entries) :
     \/ entries[i].isNull
     \/ revision = "placeholder" /\ entries[i].indexKind \in {"missing", "fraction"}

\* the loop of generateStoriesWithGemini over the parsed stories array, when
\* it does not throw: index < 0 and index >= length are both false for a
\* missing or fractional index, and results[index] is then undefined
RECURSIVE MapGeminiStories(_, _, _)
MapGeminiStories(entries, results, pathRank) ==
  IF entries = << >> THEN << >>
  ELSE
    LET story == Head(entries)
        index == story.index
        rest == MapGeminiStories(Tail(entries), results, pathRank)
    IN  IF story.indexKind \in {"missing", "fraction"} THEN rest
        ELSE IF index < 0 \/ index >= Len(results) THEN rest
        ELSE LET r == results[index + 1]
             IN  IF r.url = EmptyUrl \/ r.title = EmptyStr THEN rest
                 ELSE IF story.shortSummary = EmptyStr \/ story.whyItMatches = EmptyStr
                 THEN rest
                 ELSE << [ id           |-> StoryId("gemini", pathRank, index),
                           title        |-> r.title,
                           sourceUrl    |-> r.url,
                           sourceType   |-> inferSourceType(r.url),
                           shortSummary |-> story.shortSummary,
                           whyItMatches |-> story.whyItMatches,
                           from         |-> r.id ] >> \o rest

\* generateStoriesWithGemini({ profile, pathRank, results }): [] on any
\* whole-response failure and on any exception of the loop (the outer catch),
\* else the valid entries mapped to stories
generateStoriesWithGemini(resp, results, pathRank, revision) ==
  IF resp.kind \in GeminiFailures THEN << >>
  ELSE IF GeminiLoopThrows(resp.stories, revision) THEN << >>
  ELSE MapGeminiStories(resp.stories, results, pathRank)

\* A response text is a sequence of tokens: the fence marker "FENCE" (three backticks), the
\* language tags "json" and "JSON", "\n", " ", "DOC" (the serialisation of
\* the document the response carries) and "junk" (text that is not JSON).
\* "\n\n" is a blank line.
Whitespace == {" ", "\n", "\n\n"}

\* String.prototype.trim
RECURSIVE TrimStart(_)
TrimStart(t) ==
  IF t # << >> /\ Head(t) \in Whitespace THEN TrimStart(Tail(t)) ELSE t
RECURSIVE TrimEnd(_)
TrimEnd(t) ==
  IF t # << >> /\ t[Len(t)] \in Whitespace THEN TrimEnd(SubSeq(t, 1, Len(t) - 1))
  ELSE t
TrimText(t) == TrimEnd(TrimStart(t))

\* the text left as it is, fences included
StripCodeFencesNot(jsonText) == jsonText

\* if (jsonText.startsWith(FENCE))
\*   jsonText.replace(/^FENCE(?:json)?\n?/, "").replace(/\n?FENCE$/, "")
StripCodeFences(jsonText) ==
  IF jsonText = << >> \/ Head(jsonText) # "FENCE" THEN jsonText
  ELSE LET a == Tail(jsonText)
           b == IF a # << >> /\ Head(a) = "json" THEN Tail(a) ELSE a
           c == IF b # << >> /\ Head(b) = "\n" THEN Tail(b) ELSE b
           d == IF c # << >> /\ c[Len(c)] = "FENCE"
                THEN SubSeq(c, 1, Len(c) - 1) ELSE c
           e == IF d # c /\ d # << >> /\ d[Len(d)] = "\n"
                THEN SubSeq(d, 1, Len(d) - 1) ELSE d
       IN  e

\* JSON.parse succeeds on the serialisation of a document, with optional
\* whitespace around it
JsonParses(jsonText, doc) ==
  /\ doc.kind # "invalid"
  /\ FilterSeq(jsonText, Range(jsonText) \ Whitespace) = <<"DOC">>
  /\ \A i \in 1..Len(jsonText) : jsonText[i] \in Whitespace \cup {"DOC"}

\* the steps of generateStoriesWithGemini from the fetch to the stories
\* array: how a raw provider answer ends, and the stories array it yields
GeminiResponseOf(raw) ==
  LET none == << >>
      jsonText == StripCodeFences(TrimText(raw.text))
  IN  IF raw.transport = "exception" THEN [kind |-> "exception", stories |-> none]
      ELSE IF raw.transport = "http-error" THEN [kind |-> "http-error", stories |-> none]
      ELSE IF raw.transport = "body-not-json" THEN [kind |-> "exception", stories |-> none]
      ELSE IF raw.text = << >> THEN [kind |-> "empty-text", stories |-> none]
      ELSE IF ~ JsonParses(jsonText, raw.doc) THEN [kind |-> "bad-json", stories |-> none]
      ELSE IF raw.doc.kind # "stories" THEN [kind |-> "no-stories-array", stories |-> none]
      ELSE [kind |-> IF Head(TrimText(raw.text)) = "FENCE" THEN "fenced" ELSE "json",
            stories |-> raw.doc.stories]

(***************************************************************************)
(* Overview                                                                *)
(***************************************************************************)
OverviewFailures == {"exception", "http-error", "bad-json", "no-candidates"}

\* the text parts the provider may answer with: "" and " " trim to nothing
PartLists == {<< >>, <<Str("", 0)>>, <<Str(" ", 0)>>, <<Str("Summary:", 1)>>,
              <<Str("plain", 2)>>, <<Str(" ", 0), Str("plain", 2)>>,
              <<Str("Summary:", 1), Str("Next moves:", 3)>>}

OverviewResponses ==
  {[kind |-> k, parts |-> << >>] : k \in OverviewFailures}
  \cup {[kind |-> "ok", parts |-> ps] : ps \in PartLists}

\* String.prototype.trim on a part
Trim(t) == IF t.s = " " THEN EmptyStr ELSE t

\* generatePathOverviewWithGemini: the trimmed non-empty parts joined by a
\* blank line, or null (the empty sequence) on failure or empty content
generatePathOverviewWithGemini(resp) ==
  IF resp.kind # "ok" THEN << >>
  ELSE LET trimmed == [i \in 1..Len(resp.parts) |-> Trim(resp.parts[i])]
       IN  FilterSeq(trimmed, Range(trimmed) \ {EmptyStr})

\* buildFallbackOverview({ profile, pathRank, pathLabel, searchResults }):
\* `${summary}\n\n${nextMoves}`
buildFallbackOverview(profile, pathRank, searchResults) ==
  LET titled == FilterSeq(searchResults,
                          {r \in Range(searchResults) : r.title # EmptyStr})
      titles == Slice(titled, 0, 2)
  IN  << Str("Summary:", pathRank),
         Str("Next moves:", IF titles # << >> THEN titles[1].id ELSE 0) >>

\* The text of the fallback overview, token by token.  A text put into the
\* template is a sequence of tokens: << >> is the empty string, <<" ">> a
\* blank one, and a text may hold a blank line ("\n\n") of its own.
safeLabel(pathLabel, pathRank) ==
  IF pathLabel # << >> THEN pathLabel
  ELSE IF pathRank = 2 THEN <<"Project & Portfolio Heavy">>
  ELSE IF pathRank = 3 THEN <<"Unconventional / Cross-Discipline">>
  ELSE <<"Conventional">>

\* x || fallback on strings
OrElse(x, fallback) == IF x # << >> THEN x ELSE fallback

\* the focus sentence of the summary
FocusOf(pathRank) ==
  IF pathRank = 2 THEN "building real projects and portfolio pieces"
  ELSE IF pathRank = 3 THEN "creative combinations of skills and non-linear career moves"
  ELSE "structured routes like internships, entry-level roles"

\* actions.slice(0, 4).join(", ") + "."
ActionsOf(pathRank) ==
  IF pathRank = 2 THEN "pick an industry and design a small sales project, ..."
  ELSE IF pathRank = 3 THEN "explore hybrid roles that combine multiple fields, ..."
  ELSE "search for entry-level roles and internships in your target field, ..."

\* searchResults.map(r => r.title).filter(t => !!t && t.trim().length > 0)
\*   .slice(0, 2)
FallbackTitles(searchResults) ==
  LET all == [i \in 1..Len(searchResults) |-> searchResults[i].title]
  IN  Slice(FilterSeq(all, {t \in Range(all) : t # << >> /\ TrimText(t) # << >>}), 0, 2)

\* the first title mentioned whether blank or not
buildFallbackOverviewFirstTitle(profile, pathRank, pathLabel, searchResults) ==
  <<"Summary:">> \o OrElse(profile.currentStatus, <<"your field">>)
    \o OrElse(profile.stage, <<"current">>) \o safeLabel(pathLabel, pathRank)
    \o OrElse(profile.timeline, <<"few months">>) \o <<FocusOf(pathRank)>>
    \o <<"\n\n">> \o <<"Next moves:", ActionsOf(pathRank)>>
    \o (IF searchResults # << >>
        THEN <<"start with">> \o searchResults[1].title ELSE << >>)

\* buildFallbackOverview as text: `${summary}\n\n${nextMoves}`
buildFallbackOverviewText(profile, pathRank, pathLabel, searchResults) ==
  LET titles == FallbackTitles(searchResults)
      summary == <<"Summary:">> \o OrElse(profile.currentStatus, <<"your field">>)
                   \o OrElse(profile.stage, <<"current">>)
                   \o safeLabel(pathLabel, pathRank)
                   \o OrElse(profile.timeline, <<"few months">>)
                   \o <<FocusOf(pathRank)>>
      nextMoves == <<"Next moves:", ActionsOf(pathRank)>>
                   \o (IF Len(titles) > 0 THEN <<"start with">> \o titles[1] ELSE << >>)
  IN  summary \o <<"\n\n">> \o nextMoves

\* String.prototype.split("\n\n") on a text of tokens
RECURSIVE SplitOnBlankLines(_)
SplitOnBlankLines(text) ==
  LET at == {i \in 1..Len(text) : text[i] = "\n\n"}
  IN  IF at = {} THEN <<text>>
      ELSE LET k == CHOOSE i \in at : \A j \in at : i <= j
           IN  <<SubSeq(text, 1, k - 1)>>
                 \o SplitOnBlankLines(SubSeq(text, k + 1, Len(text)))

\* one block of the overview as the page shows it: a labelled box when the
\* trimmed block starts with "Summary:" or "Next moves:", else a paragraph
RenderBlock(block) ==
  LET trimmed == TrimText(block)
      isSummary == trimmed # << >> /\ Head(trimmed) = "Summary:"
      isNextMoves == trimmed # << >> /\ Head(trimmed) = "Next moves:"
  IN  IF ~ isSummary /\ ~ isNextMoves
      THEN [kind |-> "paragraph", label |-> "", text |-> trimmed]
      ELSE [kind |-> "box", label |-> Head(trimmed), text |-> TrimText(Tail(trimmed))]

\* only the labelled blocks shown
RenderOverviewBoxesOnly(overview) ==
  LET blocks == SplitOnBlankLines(overview)
      shown == [i \in 1..Len(blocks) |-> RenderBlock(blocks[i])]
  IN  FilterSeq(shown, {e \in Range(shown) : e.kind = "box"})

\* PathDetailPage: overviewData?.overview && overview.split("\n\n").map(...)
RenderOverview(overview) ==
  IF overview = << >> THEN << >>
  ELSE LET blocks == SplitOnBlankLines(overview)
       IN  [i \in 1..Len(blocks) |-> RenderBlock(blocks[i])]

StaticNoKeys == <<Str("AI overview is temporarily unavailable for this path right now", 0)>>
StaticNoRelevant == <<Str("AI overview is temporarily unavailable ... relevant real-world examples", 0)>>


(***************************************************************************)
(* State                                                                   *)
(***************************************************************************)
VARIABLES
  variant,       \* which revision of the router serves: "placeholder" | "emptyArray"
  op,            \* the procedure called: "stories" | "overview"
  profileId,     \* input.profileId
  inRank,        \* input.pathRank (Absent when not given)
  geminiKey,     \* env.GEMINI_API_KEY is set
  webSearchKey,  \* env.WEB_SEARCH_API_KEY is set
  pc,            \* where the request is: start, searching, summarizing,
                 \* persisting, done (returned), failed (threw)
  error,         \* the TRPCError code thrown, or "none"
  outcome,       \* the branch that ended the request
  searchOutcome, \* how the search call ended
  found,         \* number of results the search client returned
  selected,      \* selectedResults / topResults
  aiOutcome,     \* how the AI call ended
  aiText,        \* what generatePathOverviewWithGemini returned
  stories,       \* the stories the request returns
  overview,      \* { overview, source } of the overview procedure
  tag,           \* the tags value of the case-study writes
  pending,       \* indices of the stories whose write has not settled
  writeErrors,   \* the error codes with which writes were rejected
  searchCalls,   \* search calls issued
  aiCalls,       \* AI calls issued
  writesIssued,  \* db.caseStudy.create calls issued
  selInput,      \* selector specification: the list
  selLimit,      \* selector specification: the limit
  selOut,        \* selector specification: the selection per rank
  selPc,         \* selector specification: "input" | "selected"
  fnIn,          \* helper specifications: the arguments of the helper
  fnOut,         \* helper specifications: what the helper returned
  fnPc,          \* helper specifications: "input" | "returned"
  pathRows,      \* path store: number of the profile's rows, per rank
  callProfile,   \* generatePathsForProfile: input.profileId, per call
  callPc,        \* generatePathsForProfile: where each call is
  callError,     \* generatePathsForProfile: the error each call threw
  callPending,   \* generatePathsForProfile: ranks whose create is outstanding
  callOps,       \* generatePathsForProfile: store writes issued, per call
  actions,       \* ActionsProvider: the actions state
  lastRemovedAction, \* ActionsProvider: the action undoRemove brings back
  actionCalls,   \* ActionsProvider: calls made so far
  pomodoroMode,  \* Pomodoro: mode ("work" | "shortBreak" | "longBreak")
  timeLeft,      \* Pomodoro: seconds left
  pomodoroRunning, \* Pomodoro: isRunning
  sessionsCompleted, \* Pomodoro: work sessions completed
  trackerMode,   \* TimeTracker: mode ("none" for null | "pomodoro")
  trackerRunning, \* TimeTracker: isRunning
  seconds,       \* TimeTracker: seconds
  pomodoroPhase, \* TimeTracker: "work" | "break"
  pomodoroCount, \* TimeTracker: work phases counted
  capturedPhase  \* TimeTracker: pomodoroPhase as the interval callback sees it

reqVars == <<variant, op, profileId, inRank, geminiKey, webSearchKey, pc, error,
             outcome, searchOutcome, found, selected, aiOutcome, aiText, stories,
             overview, tag, pending, writeErrors, searchCalls, aiCalls,
             writesIssued>>
selVars == <<selInput, selLimit, selOut, selPc>>
fnVars == <<fnIn, fnOut, fnPc>>
pathVars == <<pathRows, callProfile, callPc, callError, callPending,
              callOps>>
actionVars == <<actions, lastRemovedAction, actionCalls>>
pomodoroVars == <<pomodoroMode, timeLeft, pomodoroRunning, sessionsCompleted>>
trackerVars == <<trackerMode, trackerRunning, seconds, pomodoroPhase, pomodoroCount,
                 capturedPhase>>
uiVars == <<actionVars, pomodoroVars, trackerVars>>
vars == <<reqVars, selVars, fnVars, pathVars, uiVars>>

NoOverview == [overview |-> << >>, source |-> "none"]

\* input.pathRank ?? 1
pathRankOf(r) == IF r = Absent THEN 1 ELSE r

ReqIdle ==
  /\ variant = "emptyArray" /\ op = "stories" /\ profileId = "p1"
  /\ inRank = Absent /\ geminiKey = FALSE /\ webSearchKey = FALSE
  /\ pc = "idle" /\ error = "none" /\ outcome = "none"
  /\ searchOutcome = "none" /\ found = 0 /\ selected = << >>
  /\ aiOutcome = "none" /\ aiText = << >> /\ stories = << >>
  /\ overview = NoOverview /\ tag = "none" /\ pending = {}
  /\ writeErrors = {} /\ searchCalls = 0 /\ aiCalls = 0 /\ writesIssued = 0

SelIdle ==
  /\ selInput = << >> /\ selLimit = 0 /\ selOut = [r \in Ranks |-> << >>]
  /\ selPc = "idle"

FnIdle == fnIn = << >> /\ fnOut = << >> /\ fnPc = "idle"

PathRanks == {1, 2, 3}
PathsIdle ==
  /\ pathRows = [r \in PathRanks |-> 0]
  /\ callProfile = << >> /\ callPc = << >> /\ callError = << >>
  /\ callPending = << >> /\ callOps = << >>

\* null
NoAction == [id |-> 0, text |-> ""]

\* the planner's components are not mounted
ActionsIdle == actions = << >> /\ lastRemovedAction = NoAction /\ actionCalls = 0
PomodoroIdle ==
  /\ pomodoroMode = "unmounted" /\ timeLeft = 0 /\ pomodoroRunning = FALSE
  /\ sessionsCompleted = 0
TrackerIdle ==
  /\ trackerMode = "unmounted" /\ trackerRunning = FALSE /\ seconds = 0
  /\ pomodoroPhase = "work" /\ pomodoroCount = 0 /\ capturedPhase = "work"
UiIdle == ActionsIdle /\ PomodoroIdle /\ TrackerIdle

\* a request arrives, under some configuration of the two credentials
Init ==
  /\ variant \in {"placeholder", "emptyArray"}
  /\ op \in {"stories", "overview"}
  /\ op = "overview" => variant = "emptyArray"
  /\ profileId \in ProfileIds
  /\ inRank \in Ranks
  /\ geminiKey \in BOOLEAN
  /\ webSearchKey \in BOOLEAN
  /\ pc = "start" /\ error = "none" /\ outcome = "none"
  /\ searchOutcome = "none" /\ found = 0 /\ selected = << >>
  /\ aiOutcome = "none" /\ aiText = << >> /\ stories = << >>
  /\ overview = NoOverview /\ tag = "none" /\ pending = {}
  /\ writeErrors = {} /\ searchCalls = 0 /\ aiCalls = 0 /\ writesIssued = 0
  /\ SelIdle
  /\ FnIdle
  /\ PathsIdle
  /\ UiIdle

(***************************************************************************)
(* generateForProfile                                                      *)
(***************************************************************************)
\* the request returning `value` after a case-study write
ReturnStoriesAfterWrite(value, why) ==
  /\ pc' = "done" /\ stories' = value /\ outcome' = why
  /\ writesIssued' = writesIssued + 1
  /\ UNCHANGED <<tag, pending>>

\* the request returns `value` without having written anything
ReturnStories(value, why) ==
  /\ pc' = "done" /\ stories' = value /\ outcome' = why
  /\ UNCHANGED <<tag, pending, writesIssued>>

\* the writes issued for all stories but the first
IssueWritesSkipFirst(value, why, t) ==
  /\ pc' = "persisting" /\ stories' = value /\ outcome' = why /\ tag' = t
  /\ pending' = 2..Len(value)
  /\ writesIssued' = writesIssued + Len(value) - 1

\* Promise.all(stories.map(db.caseStudy.create)): every write is issued
\* before any of them settles
IssueWrites(value, why, t) ==
  /\ pc' = "persisting" /\ stories' = value /\ outcome' = why /\ tag' = t
  /\ pending' = 1..Len(value)
  /\ writesIssued' = writesIssued + Len(value)

\* what the earlier revision returns where the later one returns []
NothingFound(reason) ==
  IF variant = "placeholder" THEN <<getPlaceholderStory(reason)>> ELSE << >>

\* the Tavily-only branches: build stories from the selected results
BuildFromSearch(profile, sel, why, t) ==
  LET storiesFromSearch ==
        buildStoriesFromSearchResults(profile, sel, SelectLimit, pathRankOf(inRank))
  IN  IF Len(storiesFromSearch) = 0
      THEN ReturnStories(NothingFound("no-search-results"), "no-stories")
      ELSE IssueWrites(storiesFromSearch, why, t)

\* the load step checking the credentials before looking the profile up
StoriesLoadProfileKeysFirst ==
  /\ pc = "start" /\ op = "stories"
  /\ IF ~ geminiKey \/ ~ webSearchKey
     THEN /\ pc' = "done" /\ outcome' = "no-keys"
          /\ stories' = NothingFound("no-keys")
          /\ UNCHANGED <<error, searchCalls>>
     ELSE IF FindUnique(profileId) = NoProfile
     THEN /\ pc' = "failed" /\ error' = "NOT_FOUND"
          /\ UNCHANGED <<stories, outcome, searchCalls>>
     ELSE /\ pc' = "searching" /\ searchCalls' = searchCalls + 1
          /\ UNCHANGED <<error, stories, outcome>>
  /\ UNCHANGED <<variant, op, profileId, inRank, geminiKey, webSearchKey,
                 searchOutcome, found, selected, aiOutcome, aiText, overview,
                 tag, pending, writeErrors, aiCalls, writesIssued, selVars, fnVars, pathVars, uiVars>>

\* the load step stopping only when both credentials are absent
StoriesLoadProfileBothAbsent ==
  /\ pc = "start" /\ op = "stories"
  /\ IF FindUnique(profileId) = NoProfile
     THEN /\ pc' = "failed" /\ error' = "NOT_FOUND"
          /\ UNCHANGED <<stories, outcome, searchCalls>>
     ELSE IF ~ geminiKey /\ ~ webSearchKey
     THEN /\ pc' = "done" /\ outcome' = "no-keys"
          /\ stories' = NothingFound("no-keys")
          /\ UNCHANGED <<error, searchCalls>>
     ELSE /\ pc' = "searching" /\ searchCalls' = searchCalls + 1
          /\ UNCHANGED <<error, stories, outcome>>
  /\ UNCHANGED <<variant, op, profileId, inRank, geminiKey, webSearchKey,
                 searchOutcome, found, selected, aiOutcome, aiText, overview,
                 tag, pending, writeErrors, aiCalls, writesIssued, selVars, fnVars, pathVars, uiVars>>

\* findUnique, the NOT_FOUND throw, the credential check, the search call
StoriesLoadProfile ==
  /\ pc = "start" /\ op = "stories"
  /\ LET profile == FindUnique(profileId)
     IN  IF profile = NoProfile
         THEN /\ pc' = "failed" /\ error' = "NOT_FOUND"
              /\ UNCHANGED <<stories, outcome, searchCalls>>
         ELSE IF ~ geminiKey \/ ~ webSearchKey
         THEN /\ pc' = "done" /\ outcome' = "no-keys"
              /\ stories' = NothingFound("no-keys")
              /\ UNCHANGED <<error, searchCalls>>
         ELSE /\ pc' = "searching" /\ searchCalls' = searchCalls + 1
              /\ UNCHANGED <<error, stories, outcome>>
  /\ UNCHANGED <<variant, op, profileId, inRank, geminiKey, webSearchKey,
                 searchOutcome, found, selected, aiOutcome, aiText, overview,
                 tag, pending, writeErrors, aiCalls, writesIssued, selVars, fnVars, pathVars, uiVars>>

\* the results the pipeline keeps before selecting: the later revision filters
Relevant(searchResults, profile) ==
  IF variant = "placeholder" THEN searchResults
  ELSE FilterSearchResultsForRelevance(LightFilter(searchResults), profile)

\* the search call returns: filter, select, then the AI call (or the
\* Tavily-only branch when there is no generative-text credential)
StoriesSearchReturn(resp) ==
  /\ pc = "searching" /\ op = "stories"
  /\ LET profile == FindUnique(profileId)
         searchResults == WebSearchForStories(resp)
         light == IF variant = "placeholder" THEN searchResults
                  ELSE LightFilter(searchResults)
         relevant == Relevant(searchResults, profile)
         selectedResults ==
           SelectSearchResultsForPath(relevant, SelectLimit, pathRankOf(inRank))
     IN  /\ searchOutcome' = resp.kind
         /\ found' = Len(searchResults)
         /\ IF variant = "emptyArray" /\ ToLowerCaseThrows(searchResults)
            THEN /\ pc' = "failed" /\ error' = "INTERNAL_SERVER_ERROR"
                 /\ UNCHANGED <<stories, outcome, tag, pending, writesIssued,
                                selected, aiCalls>>
            ELSE IF Len(light) = 0
            THEN /\ ReturnStories(NothingFound("no-search-results"),
                                  "no-search-results")
                 /\ error' = error
                 /\ UNCHANGED <<selected, aiCalls>>
            ELSE IF Len(relevant) = 0
            THEN /\ ReturnStories(<< >>, "no-relevant-results")
                 /\ error' = error
                 /\ UNCHANGED <<selected, aiCalls>>
            ELSE IF ~ geminiKey
            THEN /\ BuildFromSearch(profile, selectedResults, "tavily-only",
                                    "tavily-only")
                 /\ selected' = selectedResults
                 /\ error' = error
                 /\ UNCHANGED aiCalls
            ELSE /\ pc' = "summarizing" /\ aiCalls' = aiCalls + 1
                 /\ selected' = selectedResults
                 /\ error' = error
                 /\ UNCHANGED <<stories, outcome, tag, pending, writesIssued>>
  /\ UNCHANGED <<variant, op, profileId, inRank, geminiKey, webSearchKey,
                 aiOutcome, aiText, overview, writeErrors, searchCalls, selVars, fnVars, pathVars, uiVars>>

\* the AI call returns: its stories, or the Tavily-only fallback
StoriesGeminiReturn(resp) ==
  /\ pc = "summarizing" /\ op = "stories"
  /\ LET profile == FindUnique(profileId)
         aiStories ==
           generateStoriesWithGemini(resp, selected, pathRankOf(inRank), variant)
     IN  /\ aiOutcome' = resp.kind
         /\ IF Len(aiStories) = 0
            THEN BuildFromSearch(profile, selected, "fallback",
                                 "tavily-only-fallback")
            ELSE IssueWrites(aiStories, "ai", "gemini-summarized")
  /\ UNCHANGED <<variant, op, profileId, inRank, geminiKey, webSearchKey, error,
                 searchOutcome, found, selected, aiText, overview, writeErrors,
                 searchCalls, aiCalls, selVars, fnVars, pathVars, uiVars>>

WriteOutcomes == {"ok", "P2002", "error"}

\* a write whose rejection, other than a duplicate key, rejects the request
WriteSettleNoCatch(i, res) ==
  /\ pc = "persisting" /\ i \in pending
  /\ pending' = pending \ {i}
  /\ writeErrors' = IF res = "ok" THEN writeErrors ELSE writeErrors \cup {res}
  /\ IF res = "error"
     THEN pc' = "failed" /\ error' = "INTERNAL_SERVER_ERROR" /\ stories' = << >>
     ELSE UNCHANGED <<pc, error, stories>>
  /\ UNCHANGED <<variant, op, profileId, inRank, geminiKey, webSearchKey,
                 outcome, searchOutcome, found, selected, aiOutcome,
                 aiText, overview, tag, searchCalls, aiCalls,
                 writesIssued, selVars, fnVars, pathVars, uiVars>>

\* a write whose rejection settles the Promise.all at once, so that the
\* request returns while other writes are outstanding
WriteSettleFailFast(i, res) ==
  /\ pc = "persisting" /\ i \in pending
  /\ pending' = pending \ {i}
  /\ writeErrors' = IF res = "ok" THEN writeErrors ELSE writeErrors \cup {res}
  /\ pc' = IF res = "error" THEN "done" ELSE pc
  /\ UNCHANGED <<variant, op, profileId, inRank, geminiKey, webSearchKey,
                 error, outcome, searchOutcome, found, selected, aiOutcome,
                 aiText, stories, overview, tag, searchCalls, aiCalls,
                 writesIssued, selVars, fnVars, pathVars, uiVars>>

\* one case-study write settles; its .catch swallows the rejection
WriteSettle(i, res) ==
  /\ pc = "persisting" /\ i \in pending
  /\ pending' = pending \ {i}
  /\ writeErrors' = IF res = "ok" THEN writeErrors ELSE writeErrors \cup {res}
  /\ UNCHANGED <<variant, op, profileId, inRank, geminiKey, webSearchKey, pc,
                 error, outcome, searchOutcome, found, selected, aiOutcome,
                 aiText, stories, overview, tag, searchCalls, aiCalls,
                 writesIssued, selVars, fnVars, pathVars, uiVars>>

\* Promise.all has settled: the stories are returned
StoriesReturn ==
  /\ pc = "persisting" /\ pending = {}
  /\ pc' = "done"
  /\ UNCHANGED <<variant, op, profileId, inRank, geminiKey, webSearchKey,
                 error, outcome, searchOutcome, found, selected, aiOutcome,
                 aiText, stories, overview, tag, pending, writeErrors,
                 searchCalls, aiCalls, writesIssued, selVars, fnVars, pathVars, uiVars>>


(***************************************************************************)
(* generateOverviewForProfile                                              *)
(***************************************************************************)
ReturnOverview(text, source, why) ==
  /\ pc' = "done" /\ outcome' = why
  /\ overview' = [overview |-> text, source |-> source]

\* findUnique, the NOT_FOUND throw, the credential check, the search call
OverviewLoadProfile ==
  /\ pc = "start" /\ op = "overview"
  /\ LET profile == FindUnique(profileId)
     IN  IF profile = NoProfile
         THEN /\ pc' = "failed" /\ error' = "NOT_FOUND"
              /\ UNCHANGED <<overview, outcome, searchCalls>>
         ELSE IF ~ geminiKey \/ ~ webSearchKey
         THEN /\ ReturnOverview(StaticNoKeys, "static", "no-keys")
              /\ UNCHANGED <<error, searchCalls>>
         ELSE /\ pc' = "searching" /\ searchCalls' = searchCalls + 1
              /\ UNCHANGED <<error, overview, outcome>>
  /\ UNCHANGED <<variant, op, profileId, inRank, geminiKey, webSearchKey,
                 searchOutcome, found, selected, aiOutcome, aiText, stories,
                 tag, pending, writeErrors, aiCalls, writesIssued, selVars, fnVars, pathVars, uiVars>>

\* the search call returns: filter, take the top results, call the AI
OverviewSearchReturn(resp) ==
  /\ pc = "searching" /\ op = "overview"
  /\ LET profile == FindUnique(profileId)
         searchResults == WebSearchForStories(resp)
         filteredResults == FilterSearchResultsForRelevance(searchResults, profile)
         topResults ==
           Slice(filteredResults, 0, Min(OverviewTop, Len(filteredResults)))
     IN  /\ searchOutcome' = resp.kind
         /\ found' = Len(searchResults)
         /\ IF Len(searchResults) = 0
            THEN /\ ReturnOverview(StaticNoKeys, "static", "no-search-results")
                 /\ error' = error
                 /\ UNCHANGED <<selected, aiCalls>>
            ELSE IF ToLowerCaseThrows(searchResults)
            THEN /\ pc' = "failed" /\ error' = "INTERNAL_SERVER_ERROR"
                 /\ UNCHANGED <<overview, outcome, selected, aiCalls>>
            ELSE IF Len(filteredResults) = 0
            THEN /\ ReturnOverview(StaticNoRelevant, "static",
                                   "no-relevant-results")
                 /\ error' = error
                 /\ UNCHANGED <<selected, aiCalls>>
            ELSE /\ pc' = "summarizing" /\ aiCalls' = aiCalls + 1
                 /\ selected' = topResults
                 /\ error' = error
                 /\ UNCHANGED <<overview, outcome>>
  /\ UNCHANGED <<variant, op, profileId, inRank, geminiKey, webSearchKey,
                 aiOutcome, aiText, stories, tag, pending, writeErrors,
                 searchCalls, writesIssued, selVars, fnVars, pathVars, uiVars>>

\* the AI step returning the AI text without the null check
OverviewGeminiReturnNoFallback(resp) ==
  /\ pc = "summarizing" /\ op = "overview"
  /\ aiOutcome' = resp.kind
  /\ aiText' = generatePathOverviewWithGemini(resp)
  /\ ReturnOverview(generatePathOverviewWithGemini(resp), "ai", "ai")
  /\ UNCHANGED <<variant, op, profileId, inRank, geminiKey, webSearchKey, error,
                 searchOutcome, found, selected, stories, tag, pending,
                 writeErrors, searchCalls, aiCalls, writesIssued, selVars, fnVars, pathVars, uiVars>>

\* the AI step tagging the deterministic fallback as "ai"
OverviewGeminiReturnMistag(resp) ==
  /\ pc = "summarizing" /\ op = "overview"
  /\ aiOutcome' = resp.kind
  /\ aiText' = generatePathOverviewWithGemini(resp)
  /\ IF generatePathOverviewWithGemini(resp) = << >>
     THEN ReturnOverview(
            buildFallbackOverview(FindUnique(profileId), pathRankOf(inRank),
                                  selected),
            "ai", "fallback")
     ELSE ReturnOverview(generatePathOverviewWithGemini(resp), "ai", "ai")
  /\ UNCHANGED <<variant, op, profileId, inRank, geminiKey, webSearchKey, error,
                 searchOutcome, found, selected, stories, tag, pending,
                 writeErrors, searchCalls, aiCalls, writesIssued, selVars, fnVars, pathVars, uiVars>>

\* the AI call returns: its text, or the deterministic fallback
OverviewGeminiReturn(resp) ==
  /\ pc = "summarizing" /\ op = "overview"
  /\ LET profile == FindUnique(profileId)
         text == generatePathOverviewWithGemini(resp)
     IN  /\ aiOutcome' = resp.kind
         /\ aiText' = text
         /\ IF text = << >>
            THEN ReturnOverview(
                   buildFallbackOverview(profile, pathRankOf(inRank), selected),
                   "fallback", "fallback")
            ELSE ReturnOverview(text, "ai", "ai")
  /\ UNCHANGED <<variant, op, profileId, inRank, geminiKey, webSearchKey, error,
                 searchOutcome, found, selected, stories, tag, pending,
                 writeErrors, searchCalls, aiCalls, writesIssued, selVars, fnVars, pathVars, uiVars>>

Next ==
  \/ StoriesLoadProfile
  \/ \E resp \in SearchResponses : StoriesSearchReturn(resp)
  \/ \E resp \in GeminiResponses(Len(selected)) : StoriesGeminiReturn(resp)
  \/ \E i \in pending, res \in WriteOutcomes : WriteSettle(i, res)
  \/ StoriesReturn
  \/ OverviewLoadProfile
  \/ \E resp \in SearchResponses : OverviewSearchReturn(resp)
  \/ \E resp \in OverviewResponses : OverviewGeminiReturn(resp)

Spec == Init /\ [][Next]_vars

(***************************************************************************)
(* The selector on its own: every list, limit and rank within the bounds   *)
(***************************************************************************)
\* the lists handed to the selector: n distinct results, or n equal ones
SelLists ==
  {[i \in 1..n |-> i] : n \in 0..MaxTotal}
  \cup {[i \in 1..n |-> 1] : n \in 2..MaxTotal}

SelInit ==
  /\ ReqIdle
  /\ FnIdle
  /\ PathsIdle
  /\ UiIdle
  /\ selInput \in SelLists
  /\ selLimit \in 0..MaxLimit
  /\ selOut = [r \in Ranks |-> << >>]
  /\ selPc = "input"

\* the selector is applied to the list for each rank
SelectAll ==
  /\ selPc = "input"
  /\ selOut' = [r \in Ranks |->
                  SelectSearchResultsForPath(selInput, selLimit, r)]
  /\ selPc' = "selected"
  /\ UNCHANGED <<selInput, selLimit, reqVars, fnVars, pathVars, uiVars>>

SpecSelect == SelInit /\ [][SelectAll]_vars


(***************************************************************************)
(* The two url classifications on their own                                *)
(***************************************************************************)
\* the url texts handed to the classifications: each domain in lower and in
\* mixed case, as a subdomain, in a query string, none, and the empty url
UrlTexts ==
  { "youtube.com", "YouTube.com", "m.youtube.com", "youtu.be", "vimeo.com",
    "Vimeo.com", "example.org/?ref=vimeo.com", "linkedin.com", "LinkedIn.com",
    "CA.LinkedIn.com", "example.org/?u=linkedin.com&v=youtu.be", "example.org",
    "trajectory.app", "youtube.org", "" }

ClassifyInit ==
  /\ ReqIdle /\ SelIdle /\ PathsIdle /\ UiIdle
  /\ fnIn \in {Url(h, n) : h \in UrlTexts, n \in 0..MaxPage}
  /\ fnOut = << >>
  /\ fnPc = "input"

\* the url is classified as the AI path and as the fallback path do
ClassifyBoth ==
  /\ fnPc = "input"
  /\ fnOut' = [ai |-> inferSourceType(fnIn), fallback |-> BuilderSourceType(fnIn)]
  /\ fnPc' = "returned"
  /\ UNCHANGED <<fnIn, reqVars, selVars, pathVars, uiVars>>

SpecClassify == ClassifyInit /\ [][ClassifyBoth]_vars


(***************************************************************************)
(* The search-only story builder on its own                                *)
(***************************************************************************)
\* the value standing for "limit not given" (opts.limit ?? 4)
NoLimit == -1
limitOrDefault(limit) == IF limit = NoLimit THEN SelectLimit ELSE limit

BuildKinds == {"full", "noTitle", "noSnippet", "emptySnippet", "noUrl"}

\* a RawSearchResult { title, url, snippet? } of the given kind
RawResult(kind, i) ==
  [ id |-> i,
    title |-> IF kind = "noTitle" THEN EmptyStr ELSE Str("title", i),
    titleIsString |-> TRUE,
    url |-> IF kind = "noUrl" THEN EmptyUrl ELSE Url("example.org", i),
    snippet |-> IF kind \in {"noSnippet", "emptySnippet"} THEN EmptyStr
                ELSE Str("content", i),
    hasSnippet |-> kind # "noSnippet",
    marks |-> {"career"} ]

\* the lists handed to the builder: every list of up to 2 results of any
\* kinds, and the lists of 3..MaxBuild complete results
BuildLists ==
  {<< >>} \cup {<<RawResult(k, 1)>> : k \in BuildKinds}
  \cup {<<RawResult(k, 1), RawResult(l, 2)>> : k \in BuildKinds, l \in BuildKinds}
  \cup {[i \in 1..n |-> RawResult("full", i)] : n \in 3..MaxBuild}

BuildInit ==
  /\ ReqIdle /\ SelIdle /\ PathsIdle /\ UiIdle
  /\ fnIn \in [searchResults : BuildLists, limit : {NoLimit} \cup 0..MaxLimit,
                pathRank : Ranks]
  /\ fnOut = << >>
  /\ fnPc = "input"

\* buildStoriesFromSearchResults is applied to the list
BuildStories ==
  /\ fnPc = "input"
  /\ fnOut' = buildStoriesFromSearchResults(Profiles["p1"], fnIn.searchResults,
                                            limitOrDefault(fnIn.limit), fnIn.pathRank)
  /\ fnPc' = "returned"
  /\ UNCHANGED <<fnIn, reqVars, selVars, pathVars, uiVars>>

SpecBuild == BuildInit /\ [][BuildStories]_vars


(***************************************************************************)
(* The AI summarizer's validation loop on its own                          *)
(***************************************************************************)
\* the results arrays handed to the summarizer
GeminiResultLists ==
  { << >>, <<RawResult("full", 1)>>,
    <<RawResult("full", 1), RawResult("noTitle", 2)>>,
    <<RawResult("noUrl", 1), RawResult("full", 2), RawResult("full", 3)>> }

\* the entries a stories array is made of
GeminiEntries ==
  {GoodEntry(i) : i \in -1..MaxIndex}
  \cup {EntryWithIndex(k, 1) : k \in {"missing", "fraction", "string"}}
  \cup {NullEntry, Entry(0, EmptyStr, Str("why", 0)), Entry(0, Str("summary", 0), EmptyStr)}

RECURSIVE GeminiEntryLists(_)
GeminiEntryLists(n) ==
  IF n = 0 THEN {<< >>}
  ELSE LET shorter == GeminiEntryLists(n - 1)
       IN  shorter \cup {Append(es, e) : es \in {t \in shorter : Len(t) = n - 1},
                                         e \in GeminiEntries}

GeminiInit ==
  /\ ReqIdle /\ SelIdle /\ PathsIdle /\ UiIdle
  /\ fnIn \in [results : GeminiResultLists, stories : GeminiEntryLists(MaxEntries),
                pathRank : {1, 3}, revision : {"placeholder", "emptyArray"}]
  /\ fnOut = << >>
  /\ fnPc = "input"

\* generateStoriesWithGemini receives a parsed response with a stories array
GeminiSummarize ==
  /\ fnPc = "input"
  /\ fnOut' = generateStoriesWithGemini([kind |-> "json", stories |-> fnIn.stories],
                                        fnIn.results, fnIn.pathRank, fnIn.revision)
  /\ fnPc' = "returned"
  /\ UNCHANGED <<fnIn, reqVars, selVars, pathVars, uiVars>>

SpecGemini == GeminiInit /\ [][GeminiSummarize]_vars


(***************************************************************************)
(* The search client on its own                                            *)
(***************************************************************************)
SearchItemKinds ==
  {"career", "video", "untitled", "nourl", "mistyped", "nullitem", "badcontent"}

RECURSIVE SearchItemLists(_)
SearchItemLists(n) ==
  IF n = 0 THEN {<< >>}
  ELSE LET shorter == SearchItemLists(n - 1)
       IN  shorter \cup
           {Append(l, ItemOf(k, Len(l) + 1)) :
              l \in {x \in shorter : Len(x) = n - 1}, k \in SearchItemKinds}

SearchInit ==
  /\ ReqIdle /\ SelIdle /\ PathsIdle /\ UiIdle
  /\ fnIn \in [kind : SearchFailures \cup {"ok"}, results : SearchItemLists(MaxItems)]
  /\ fnOut = << >>
  /\ fnPc = "input"

\* webSearchForStories receives the provider's answer
SearchAnswer ==
  /\ fnPc = "input"
  /\ fnOut' = [threw |-> FALSE, results |-> WebSearchForStories(fnIn)]
  /\ fnPc' = "returned"
  /\ UNCHANGED <<fnIn, reqVars, selVars, pathVars, uiVars>>

SpecSearch == SearchInit /\ [][SearchAnswer]_vars


(***************************************************************************)
(* The deterministic overview fallback on its own                          *)
(***************************************************************************)
FieldTexts == {<< >>, <<" ">>, <<"x">>, <<"x", "\n\n", "y">>}
ShortFieldTexts == {<< >>, <<"x">>}
LabelTexts == {<< >>, <<"My label">>, <<"My", "\n\n", "label">>}
TitleTexts == {<< >>, <<" ">>, <<"T1">>, <<"T2">>, <<"T1", "\n\n", "more">>}
FallbackRanks == {1, 2, 3, 4}

RECURSIVE TitleLists(_)
TitleLists(n) ==
  IF n = 0 THEN {<< >>}
  ELSE LET shorter == TitleLists(n - 1)
       IN  shorter \cup
           {Append(l, [title |-> t]) :
              l \in {x \in shorter : Len(x) = n - 1}, t \in TitleTexts}

FallbackInit ==
  /\ ReqIdle /\ SelIdle /\ PathsIdle /\ UiIdle
  /\ fnIn \in [profile : [currentStatus : FieldTexts, stage : ShortFieldTexts,
                          timeline : ShortFieldTexts],
                pathRank : FallbackRanks, pathLabel : LabelTexts,
                searchResults : TitleLists(MaxTitles)]
  /\ fnOut = << >>
  /\ fnPc = "input"

\* buildFallbackOverview is applied
FallbackBuild ==
  /\ fnPc = "input"
  /\ fnOut' = buildFallbackOverviewText(fnIn.profile, fnIn.pathRank, fnIn.pathLabel,
                                        fnIn.searchResults)
  /\ fnPc' = "returned"
  /\ UNCHANGED <<fnIn, reqVars, selVars, pathVars, uiVars>>

SpecFallback == FallbackInit /\ [][FallbackBuild]_vars


(***************************************************************************)
(* The path detail page's rendering of the overview on its own             *)
(***************************************************************************)
OverviewTokens == {"Summary:", "Next moves:", "summary:", "w", " ", "\n\n"}

RECURSIVE OverviewTexts(_)
OverviewTexts(n) ==
  IF n = 0 THEN {<< >>}
  ELSE LET shorter == OverviewTexts(n - 1)
       IN  shorter \cup
           {Append(t, k) : t \in {x \in shorter : Len(x) = n - 1}, k \in OverviewTokens}

RenderInit ==
  /\ ReqIdle /\ SelIdle /\ PathsIdle /\ UiIdle
  /\ fnIn \in OverviewTexts(MaxOverviewLen)
  /\ fnOut = << >>
  /\ fnPc = "input"

\* the page renders overviewData.overview
Render ==
  /\ fnPc = "input"
  /\ fnOut' = [error |-> FALSE, shown |-> RenderOverview(fnIn)]
  /\ fnPc' = "returned"
  /\ UNCHANGED <<fnIn, reqVars, selVars, pathVars, uiVars>>

SpecRender == RenderInit /\ [][Render]_vars


(***************************************************************************)
(* The AI summarizer's handling of the provider's answer on its own        *)
(***************************************************************************)
\* the documents an answer may carry: an object with a stories array, and
\* the JSON values that have none
GeminiDocs ==
  {[kind |-> "stories", stories |-> es] :
     es \in {<< >>, <<GoodEntry(0)>>, <<GoodEntry(1), GoodEntry(0)>>}}
  \cup {[kind |-> k, stories |-> << >>] :
          k \in {"null", "number", "array", "object-without-stories",
                 "stories-not-array", "invalid"}}

\* the texts of an answer: bare, fenced in the ways the provider fences
\* JSON, fenced badly, empty, and not JSON
GeminiTexts ==
  { <<"DOC">>, <<" ", "DOC", "\n">>, <<"FENCE", "json", "\n", "DOC", "\n", "FENCE">>,
    <<"FENCE", "\n", "DOC", "\n", "FENCE">>, <<"FENCE", "DOC", "FENCE">>,
    <<"FENCE", "json", "DOC", "FENCE", " ">>, <<"\n", "FENCE", "json", "\n", "DOC", "\n", "FENCE", "\n">>,
    <<"FENCE", "JSON", "\n", "DOC", "\n", "FENCE">>, <<"FENCE", "json", "\n", "DOC">>,
    << >>, <<"junk">>, <<"DOC", "junk">>,
    <<"FENCE", "json", "\n", "junk", "\n", "FENCE">> }

GeminiTransports == {"ok", "http-error", "exception", "body-not-json"}

GeminiRawInit ==
  /\ ReqIdle /\ SelIdle /\ PathsIdle /\ UiIdle
  /\ fnIn \in [transport : GeminiTransports, text : GeminiTexts, doc : GeminiDocs,
                results : {<<RawResult("full", 1), RawResult("full", 2)>>},
                pathRank : {1}, revision : {"placeholder", "emptyArray"}]
  /\ fnOut = << >>
  /\ fnPc = "input"

\* generateStoriesWithGemini receives the provider's answer
GeminiAnswer ==
  /\ fnPc = "input"
  /\ fnOut' = [threw |-> FALSE,
               stories |-> generateStoriesWithGemini(GeminiResponseOf(fnIn), fnIn.results,
                                                     fnIn.pathRank, fnIn.revision)]
  /\ fnPc' = "returned"
  /\ UNCHANGED <<fnIn, reqVars, selVars, pathVars, uiVars>>

SpecGeminiRaw == GeminiRawInit /\ [][GeminiAnswer]_vars


(***************************************************************************)
(* The relevance filter on its own                                         *)
(***************************************************************************)
\* the texts (title + snippet + url, lower-cased) of the results handed to
\* the filter, each given by the phrases it contains
FilterTexts ==
  [ handbook    |-> {"student-parent handbook", "policies"},
    handbookJob |-> {"student-parent handbook", "career", "sales"},
    pressSales  |-> {"press release", "marketing"},
    career      |-> {"career"},
    quantumJob  |-> {"quantum computing", "job"},
    deepOnly    |-> {"deep learning"},
    marketing   |-> {"marketing"},
    shortOnly   |-> {"pr", "ai"},
    nothing     |-> {"recipes"} ]

FilterResult(kind, i) == [RawResult("full", i) EXCEPT !.marks = FilterTexts[kind]]

RECURSIVE FilterLists(_)
FilterLists(n) ==
  IF n = 0 THEN {<< >>}
  ELSE LET shorter == FilterLists(n - 1)
       IN  shorter \cup {Append(rs, FilterResult(k, n)) :
                           rs \in {t \in shorter : Len(t) = n - 1},
                           k \in DOMAIN FilterTexts}

\* the profiles handed to the filter: interests and extraInfo as token lists
FilterProfiles ==
  { [Profiles["p1"] EXCEPT !.interests = i, !.extraInfo = e] :
      i \in { << >>, <<"sales">>, <<"quantum", "marketing">>, <<"retail">>,
               <<"pr">>, <<"marketing">> },
      e \in { << >>, <<"machine learning">> } }

FilterInit ==
  /\ ReqIdle /\ SelIdle /\ PathsIdle /\ UiIdle
  /\ fnIn \in [searchResults : FilterLists(MaxFilter), profile : FilterProfiles]
  /\ fnOut = << >>
  /\ fnPc = "input"

\* filterSearchResultsForRelevance is applied to the list
FilterForRelevance ==
  /\ fnPc = "input"
  /\ fnOut' = FilterSearchResultsForRelevance(fnIn.searchResults, fnIn.profile)
  /\ fnPc' = "returned"
  /\ UNCHANGED <<fnIn, reqVars, selVars, pathVars, uiVars>>

SpecFilter == FilterInit /\ [][FilterForRelevance]_vars


(***************************************************************************)
(* generatePathsForProfile (recommendation router), called concurrently    *)
(***************************************************************************)
Calls == 1..MaxCalls

\* the path-selection store, as the specification describes it: a collection
\* of rows with deleteAllForProfile and create, and no uniqueness rule
DeleteAllForProfile(rows) == [r \in PathRanks |-> 0]
CreatePath(rows, rank) == [rows EXCEPT ![rank] = @ + 1]

\* the calls arrive; the profile has no path yet or the three paths of an
\* earlier generation
PathsInit ==
  /\ ReqIdle /\ SelIdle /\ FnIdle /\ UiIdle
  /\ pathRows \in {[r \in PathRanks |-> 0], [r \in PathRanks |-> 1]}
  /\ callProfile \in [Calls -> {"p1", "unknown-id"}]
  /\ callPc = [c \in Calls |-> "start"]
  /\ callError = [c \in Calls |-> "none"]
  /\ callPending = [c \in Calls |-> {}]
  /\ callOps = [c \in Calls |-> 0]

\* db.userProfile.findUnique, and NOT_FOUND when there is no such profile
PathsLoadProfile(c) ==
  /\ callPc[c] = "start"
  /\ IF FindUnique(callProfile[c]) = NoProfile
     THEN /\ callPc' = [callPc EXCEPT ![c] = "failed"]
          /\ callError' = [callError EXCEPT ![c] = "NOT_FOUND"]
     ELSE /\ callPc' = [callPc EXCEPT ![c] = "loaded"]
          /\ UNCHANGED callError
  /\ UNCHANGED <<pathRows, callProfile, callPending, callOps,
                 reqVars, selVars, fnVars, uiVars>>

\* db.userPathSelection.deleteMany removes the profile's rows; the call then
\* starts its three creates (Promise.all over placeholderPaths.map)
PathsDeleteMany(c) ==
  /\ callPc[c] = "loaded"
  /\ pathRows' = DeleteAllForProfile(pathRows)
  /\ callPc' = [callPc EXCEPT ![c] = "creating"]
  /\ callPending' = [callPending EXCEPT ![c] = PathRanks]
  /\ callOps' = [callOps EXCEPT ![c] = @ + 4]
  /\ UNCHANGED <<callProfile, callError, reqVars, selVars, fnVars, uiVars>>

\* one db.userPathSelection.create of the call runs in the store
PathsCreate(c, rank) ==
  /\ rank \in callPending[c]
  /\ callPending' = [callPending EXCEPT ![c] = @ \ {rank}]
  /\ pathRows' = CreatePath(pathRows, rank)
  /\ UNCHANGED <<callProfile, callPc, callError, callOps, reqVars, selVars, fnVars, uiVars>>

\* Promise.all has resolved: the call returns the created paths
PathsReturn(c) ==
  /\ callPc[c] = "creating" /\ callPending[c] = {}
  /\ callPc' = [callPc EXCEPT ![c] = "done"]
  /\ UNCHANGED <<pathRows, callProfile, callError, callPending,
                 callOps, reqVars, selVars, fnVars, uiVars>>

PathsNext ==
  \E c \in Calls :
     \/ PathsLoadProfile(c)
     \/ PathsDeleteMany(c)
     \/ \E rank \in PathRanks : PathsCreate(c, rank)
     \/ PathsReturn(c)

SpecPaths == PathsInit /\ [][PathsNext]_vars


(***************************************************************************)
(* The planner's ActionsProvider                                           *)
(***************************************************************************)
\* initialActions: ids 1..13
InitialCount == 13
initialActions == [i \in 1..InitialCount |-> [id |-> i, text |-> "initial"]]

\* Math.max(...ids, 0)
RECURSIVE MaxOf(_)
MaxOf(ids) ==
  IF ids = {} THEN 0
  ELSE LET x == CHOOSE y \in ids : \A z \in ids : z <= y IN x

\* the provider mounts with nothing saved: useState(loadActions)
ActionsInit ==
  /\ ReqIdle /\ SelIdle /\ FnIdle /\ PathsIdle /\ PomodoroIdle /\ TrackerIdle
  /\ actions = initialActions
  /\ lastRemovedAction = NoAction
  /\ actionCalls = 0

\* addAction(text)
addAction(text) ==
  /\ actionCalls < MaxActionCalls
  /\ actions' = Append(actions, [id |-> MaxOf({a.id : a \in Range(actions)}) + 1,
                                 text |-> text])
  /\ actionCalls' = actionCalls + 1
  /\ UNCHANGED <<lastRemovedAction, reqVars, selVars, fnVars, pathVars,
                 pomodoroVars, trackerVars>>

\* removeAction(id)
removeAction(id) ==
  /\ actionCalls < MaxActionCalls
  /\ actionCalls' = actionCalls + 1
  /\ IF \E a \in Range(actions) : a.id = id
     THEN /\ lastRemovedAction' =
               actions[CHOOSE i \in 1..Len(actions) :
                         actions[i].id = id /\ \A j \in 1..(i - 1) : actions[j].id # id]
          /\ actions' = FilterSeq(actions, {a \in Range(actions) : a.id # id})
     ELSE UNCHANGED <<actions, lastRemovedAction>>
  /\ UNCHANGED <<reqVars, selVars, fnVars, pathVars, pomodoroVars, trackerVars>>

\* undoRemove()
undoRemove ==
  /\ actionCalls < MaxActionCalls
  /\ actionCalls' = actionCalls + 1
  /\ IF lastRemovedAction # NoAction
     THEN /\ actions' = Append(actions, lastRemovedAction)
          /\ lastRemovedAction' = NoAction
     ELSE UNCHANGED <<actions, lastRemovedAction>>
  /\ UNCHANGED <<reqVars, selVars, fnVars, pathVars, pomodoroVars, trackerVars>>

ActionsNext ==
  \/ addAction("added")
  \/ \E id \in 1..(InitialCount + 1) : removeAction(id)
  \/ undoRemove

SpecActions == ActionsInit /\ [][ActionsNext]_vars


(***************************************************************************)
(* The Pomodoro widget                                                     *)
(***************************************************************************)
WORK_TIME == 25 * 60
SHORT_BREAK == 5 * 60
LONG_BREAK == 15 * 60

\* the full duration of a mode
DurationOf(m) ==
  IF m = "work" THEN WORK_TIME ELSE IF m = "shortBreak" THEN SHORT_BREAK ELSE LONG_BREAK

\* The interval callback calls setTimeLeft with an updater that, at the end of
\* the countdown, calls handleTimerComplete (which calls setTimeLeft itself)
\* and then returns 0.  React requires updaters to be pure and fixes no order
\* between the updater's result and an update it enqueues while it runs: the
\* updater runs either when it is queued (the nested update is then queued
\* before it and its result 0 is applied last) or during the next render (the
\* nested update is then applied after it).
UpdaterOrders == {"result-last", "nested-last"}

PomodoroInit ==
  /\ ReqIdle /\ SelIdle /\ FnIdle /\ PathsIdle /\ ActionsIdle /\ TrackerIdle
  /\ pomodoroMode = "work"
  /\ timeLeft = WORK_TIME
  /\ pomodoroRunning = FALSE
  /\ sessionsCompleted = 0

\* toggleTimer
toggleTimer ==
  /\ pomodoroRunning' = ~ pomodoroRunning
  /\ UNCHANGED <<pomodoroMode, timeLeft, sessionsCompleted, reqVars, selVars, fnVars,
                 pathVars, actionVars, trackerVars>>

\* resetTimer
resetTimer ==
  /\ pomodoroRunning' = FALSE
  /\ pomodoroMode' = "work"
  /\ timeLeft' = WORK_TIME
  /\ sessionsCompleted' = 0
  /\ UNCHANGED <<reqVars, selVars, fnVars, pathVars, actionVars, trackerVars>>

\* one tick of the interval, which exists while isRunning && timeLeft > 0:
\* the countdown goes on, or ends with handleTimerComplete
PomodoroTick ==
  /\ pomodoroRunning /\ timeLeft > 0
  /\ IF timeLeft > 1
     THEN /\ timeLeft' = timeLeft - 1
          /\ UNCHANGED <<pomodoroMode, pomodoroRunning, sessionsCompleted>>
     ELSE /\ pomodoroRunning' = FALSE
          /\ IF pomodoroMode = "work"
             THEN /\ sessionsCompleted < MaxSessions
                  /\ sessionsCompleted' = sessionsCompleted + 1
                  /\ pomodoroMode' = IF (sessionsCompleted + 1) % 4 = 0
                                     THEN "longBreak" ELSE "shortBreak"
             ELSE /\ pomodoroMode' = "work"
                  /\ UNCHANGED sessionsCompleted
          /\ \E order \in UpdaterOrders :
                timeLeft' = IF order = "result-last" THEN 0
                            ELSE DurationOf(pomodoroMode')
  /\ UNCHANGED <<reqVars, selVars, fnVars, pathVars, actionVars, trackerVars>>

PomodoroNext == toggleTimer \/ resetTimer \/ PomodoroTick

SpecPomodoro == PomodoroInit /\ [][PomodoroNext]_vars


(***************************************************************************)
(* The TimeTracker widget in pomodoro mode                                 *)
(***************************************************************************)
workDuration == 25 * 60
breakDuration == 5 * 60

TrackerInit ==
  /\ ReqIdle /\ SelIdle /\ FnIdle /\ PathsIdle /\ ActionsIdle /\ PomodoroIdle
  /\ trackerMode = "none"
  /\ trackerRunning = FALSE
  /\ seconds = 0
  /\ pomodoroPhase = "work"
  /\ pomodoroCount = 0
  /\ capturedPhase = "work"

\* The interval effect depends on [isRunning, mode]: it runs again, and its
\* callback closes over the pomodoroPhase of that render, only when one of the
\* two has changed.
EffectRuns == trackerRunning' # trackerRunning \/ trackerMode' # trackerMode

\* startPomodoro
startPomodoro ==
  /\ trackerMode' = "pomodoro"
  /\ pomodoroPhase' = "work"
  /\ pomodoroCount' = 0
  /\ seconds' = workDuration
  /\ trackerRunning' = TRUE
  /\ capturedPhase' = IF EffectRuns THEN pomodoroPhase' ELSE capturedPhase
  /\ UNCHANGED <<reqVars, selVars, fnVars, pathVars, actionVars, pomodoroVars>>

\* togglePlayPause (the controls are shown once a mode is chosen)
togglePlayPause ==
  /\ trackerMode = "pomodoro"
  /\ trackerRunning' = ~ trackerRunning
  /\ UNCHANGED <<trackerMode, seconds, pomodoroPhase, pomodoroCount>>
  /\ capturedPhase' = IF EffectRuns THEN pomodoroPhase' ELSE capturedPhase
  /\ UNCHANGED <<reqVars, selVars, fnVars, pathVars, actionVars, pomodoroVars>>

\* reset, in pomodoro mode
reset ==
  /\ trackerMode = "pomodoro"
  /\ trackerRunning' = FALSE
  /\ pomodoroPhase' = "work"
  /\ seconds' = workDuration
  /\ UNCHANGED <<trackerMode, pomodoroCount>>
  /\ capturedPhase' = IF EffectRuns THEN pomodoroPhase' ELSE capturedPhase
  /\ UNCHANGED <<reqVars, selVars, fnVars, pathVars, actionVars, pomodoroVars>>

\* close
close ==
  /\ trackerMode = "pomodoro"
  /\ trackerMode' = "none"
  /\ trackerRunning' = FALSE
  /\ seconds' = 0
  /\ pomodoroPhase' = "work"
  /\ pomodoroCount' = 0
  /\ capturedPhase' = IF EffectRuns THEN pomodoroPhase' ELSE capturedPhase
  /\ UNCHANGED <<reqVars, selVars, fnVars, pathVars, actionVars, pomodoroVars>>

\* one tick of the interval in pomodoro mode: the countdown goes on, or, at
\* zero, handlePomodoroComplete runs with the phase the callback captured; the
\* updater then returns 0 while the handler has called setSeconds itself
TrackerTick ==
  /\ trackerRunning /\ trackerMode = "pomodoro"
  /\ IF seconds > 0
     THEN /\ seconds' = seconds - 1
          /\ UNCHANGED <<pomodoroPhase, pomodoroCount>>
     ELSE /\ IF capturedPhase = "work"
             THEN /\ pomodoroCount < MaxPomodoros
                  /\ pomodoroPhase' = "break"
                  /\ pomodoroCount' = pomodoroCount + 1
             ELSE /\ pomodoroPhase' = "work"
                  /\ UNCHANGED pomodoroCount
          /\ \E order \in UpdaterOrders :
                seconds' = IF order = "result-last" THEN 0
                           ELSE IF capturedPhase = "work" THEN breakDuration
                           ELSE workDuration
  /\ UNCHANGED <<trackerMode, trackerRunning, capturedPhase>>
  /\ UNCHANGED <<reqVars, selVars, fnVars, pathVars, actionVars, pomodoroVars>>

TrackerNext == startPomodoro \/ togglePlayPause \/ reset \/ close \/ TrackerTick

SpecTracker == TrackerInit /\ [][TrackerNext]_vars


(***************************************************************************)
(* Properties                                                              *)
(***************************************************************************)
Resolves == profileId \in DOMAIN Profiles
BothKeys == geminiKey /\ webSearchKey
NothingDone == searchCalls = 0 /\ aiCalls = 0 /\ writesIssued = 0
IsNoKeysPlaceholder(v) ==
  Len(v) = 1 /\ v[1].id.kind = "placeholder-no-keys" /\ v[1].sourceType = "other"

\* C1: a request whose profileId is not stored fails with NOT_FOUND under
\* every credential configuration, for both procedures, and has issued no
\* search call, no AI call and no case-study write, and returns no value.
C1_NotFoundFirst ==
  (pc # "start" /\ ~ Resolves) =>
     /\ pc = "failed" /\ error = "NOT_FOUND"
     /\ NothingDone
     /\ stories = << >> /\ overview = NoOverview

C1_Witness ==
  pc = "failed" /\ error = "NOT_FOUND" /\ profileId = "unknown-id"
  /\ ~ geminiKey /\ webSearchKey /\ op = "stories"

\* C2: a request whose profile is stored never throws: whatever the search,
\* the AI call and the writes do, it is never in the failed state, and until
\* it has returned it always has a next step.
C2_NeverThrows ==
  Resolves =>
     /\ pc # "failed" /\ error = "none"
     /\ (pc # "done" => ENABLED Next)

C4_OverviewNonEmpty ==
  (op = "overview" /\ pc = "done") =>
     /\ overview.overview # << >>
     /\ \A i \in 1..Len(overview.overview) : overview.overview[i] # EmptyStr
     /\ overview.source \in {"ai", "fallback", "static"}

C4_Witness ==
  /\ op = "overview" /\ pc = "done" /\ aiOutcome = "ok" /\ aiText = << >>
  /\ overview.source = "fallback" /\ Len(overview.overview) = 2

\* C5 as stated: with both credentials present the overview is tagged "ai"
\* or "fallback", "ai" exactly when the AI generator returned text.
C5_Original ==
  (op = "overview" /\ pc = "done" /\ BothKeys) =>
     /\ overview.source \in {"ai", "fallback"}
     /\ overview.source = "ai" <=> aiText # << >>

\* C5 amended: without a credential the overview is the static text and no
\* search is made; with both credentials one search is made, the overview is
\* tagged "static" exactly when the search or the relevance filter left no
\* result (and then no AI call is made), and otherwise it is tagged "ai" or
\* "fallback", "ai" exactly when the AI generator returned non-empty text,
\* which is then the overview.
C5_Amended ==
  (op = "overview" /\ pc = "done") =>
     /\ ~ BothKeys => overview.source = "static" /\ searchCalls = 0
     /\ BothKeys =>
          /\ searchCalls = 1
          /\ overview.source = "static" <=> selected = << >>
          /\ overview.source = "static" <=> aiCalls = 0
          /\ found = 0 => overview.source = "static"
          /\ selected # << >> =>
               /\ overview.source \in {"ai", "fallback"}
               /\ overview.source = "ai" <=> aiText # << >>
               /\ overview.source = "ai" => overview.overview = aiText

C5_Witness ==
  /\ op = "overview" /\ pc = "done" /\ BothKeys
  /\ found > 0 /\ selected = << >> /\ overview.source = "static"


\* C6: with both credentials present and a result surviving search and
\* filtering, the request goes on either with at least one AI story or, when
\* the AI summarizer yields no story (every whole-response failure does), with
\* the builder's stories: one per selected result, in the selector's order,
\* and at least one.
C6_FallbackSameSelection ==
  (op = "stories" /\ pc \in {"persisting", "done"} /\ aiCalls = 1) =>
     /\ aiOutcome \in GeminiFailures => outcome = "fallback"
     /\ outcome \in {"fallback", "ai"}
     /\ outcome = "ai" =>
          /\ Len(stories) >= 1
          /\ \A i \in 1..Len(stories) : stories[i].id.kind = "gemini"
     /\ outcome = "fallback" =>
          /\ Len(stories) >= 1
          /\ Len(stories) = Len(selected)
          /\ \A i \in 1..Len(stories) :
               /\ stories[i].id = [kind |-> "search", a |-> i, b |-> 0]
               /\ stories[i].from = selected[i].id
               /\ stories[i].sourceUrl = selected[i].url
               /\ stories[i].title = selected[i].title

C6_Witness ==
  /\ op = "stories" /\ pc = "done" /\ outcome = "fallback"
  /\ aiOutcome = "bad-json" /\ inRank = 3 /\ found = 10
  /\ Len(stories) = SelectLimit /\ stories[1].from = 5

\* C7: the value generateStories returns when it found nothing usable (zero
\* search results, or zero after filtering) is never the value it returns
\* when a credential is absent.
C7_Distinguishable ==
  (op = "stories" /\ pc = "done"
   /\ outcome \in {"no-search-results", "no-relevant-results"}) =>
     stories # NothingFound("no-keys")

\* C8: when total < 2*limit the selector returns the first min(limit, total)
\* results in their order, for every rank and for no rank.
C8_BoundaryFallback ==
  (selPc = "selected" /\ Len(selInput) < 2 * selLimit) =>
     \A r \in Ranks :
        /\ Len(selOut[r]) = Min(selLimit, Len(selInput))
        /\ \A i \in 1..Len(selOut[r]) : selOut[r][i] = selInput[i]

C8_Witness ==
  /\ selPc = "selected" /\ Len(selInput) = 7 /\ selLimit = 4
  /\ selOut[3] = <<1, 2, 3, 4>>

IsDistinct(s) == \A i, j \in 1..Len(s) : i # j => s[i] # s[j]

\* C9: for a list of pairwise distinct results with total >= 2*limit the
\* selections for ranks 1, 2 and 3 are pairwise different and each has exactly
\* limit results.
C9_Diversity ==
  (selPc = "selected" /\ IsDistinct(selInput) /\ selLimit >= 1
   /\ Len(selInput) >= 2 * selLimit) =>
     /\ \A r \in {1, 2, 3} : Len(selOut[r]) = selLimit
     /\ selOut[1] # selOut[2] /\ selOut[1] # selOut[3] /\ selOut[2] # selOut[3]

IsPlaceholder(story) ==
  story.id.kind \in {"placeholder-no-keys", "placeholder-no-search-results",
                     "placeholder-gemini-failed"}

\* C11 as stated: every story returned by generateForProfile, on every path,
\* placeholder stories included, has the sourceType that the substring rules
\* give for its own sourceUrl (video, else linkedin, else article).
C11_Original ==
  (op = "stories" /\ pc = "done") =>
     \A i \in 1..Len(stories) :
        stories[i].sourceType = inferSourceType(stories[i].sourceUrl)

\* C11 amended: every AI-summarized story and every search-only story that is
\* returned has the sourceType the substring rules give for its sourceUrl; a
\* placeholder story has sourceType "other" and the url https://trajectory.app,
\* which the rules would classify as article.
C11_Amended ==
  (op = "stories" /\ pc \in {"persisting", "done"}) =>
     \A i \in 1..Len(stories) :
        IF IsPlaceholder(stories[i])
        THEN /\ stories[i].sourceType = "other"
             /\ stories[i].sourceUrl = Url("trajectory.app", 0)
             /\ inferSourceType(stories[i].sourceUrl) = "article"
        ELSE stories[i].sourceType = inferSourceType(stories[i].sourceUrl)

\* a returned search-only story of a video url written in upper case
C11_Witness ==
  /\ op = "stories" /\ pc = "done" /\ outcome = "fallback"
  /\ \E i \in 1..Len(stories) :
        stories[i].sourceUrl = Url("YouTube.com", stories[i].from)
        /\ stories[i].sourceType = "video"


\* C12: for every url the sourceType computed by inferSourceType (AI path)
\* equals the sourceType computed inline by buildStoriesFromSearchResults
\* (fallback path), and it is the type the substring rules name: video for the
\* video domains, else linkedin for linkedin.com, else article.
C12_SameSourceType ==
  fnPc = "returned" =>
     /\ fnOut.ai = fnOut.fallback
     /\ fnOut.ai \in {"video", "linkedin", "article"}
     /\ (fnIn.host \in {"YouTube.com", "m.youtube.com", "youtu.be",
                        "example.org/?ref=vimeo.com",
                        "example.org/?u=linkedin.com&v=youtu.be"}
           => fnOut.ai = "video")
     /\ (fnIn.host \in {"CA.LinkedIn.com", "linkedin.com"} => fnOut.ai = "linkedin")
     /\ (fnIn.host \in {"example.org", "youtube.org", ""} => fnOut.ai = "article")

\* a url naming both linkedin.com and a video domain has been classified
C12_Witness ==
  /\ fnPc = "returned" /\ fnIn.host = "example.org/?u=linkedin.com&v=youtu.be"
  /\ fnOut.ai = "video" /\ fnOut.fallback = "video"


GenericSummary == Str("A real career story pulled from the web", 0)

\* C13 as stated: the builder returns exactly as many stories as it was given
\* results, for every list and every pathRank.
C13_Original ==
  fnPc = "returned" => Len(fnOut) = Len(fnIn.searchResults)

\* C13 amended: the builder returns one story per result its own call of the
\* selector keeps, min(limit, number of results) stories with limit 4 when
\* none is given, so as many as the input exactly when the input has at most
\* limit results; no selected result is dropped: a missing title becomes
\* "Career story", an absent snippet becomes the generic sentence, an empty
\* snippet stays empty, a missing url becomes https://example.com.
C13_Amended ==
  fnPc = "returned" =>
     LET limit == limitOrDefault(fnIn.limit)
         sel == SelectSearchResultsForPath(fnIn.searchResults, limit, fnIn.pathRank)
     IN  /\ Len(fnOut) = Min(limit, Len(fnIn.searchResults))
         /\ Len(fnOut) = Len(sel)
         /\ (Len(fnIn.searchResults) <= limit
               => Len(fnOut) = Len(fnIn.searchResults))
         /\ \A i \in 1..Len(fnOut) :
               /\ fnOut[i].from = sel[i].id
               /\ fnOut[i].id = StoryId("search", i, 0)
               /\ fnOut[i].title =
                    (IF sel[i].title = EmptyStr THEN Str("Career story", 0)
                     ELSE sel[i].title)
               /\ fnOut[i].shortSummary =
                    (IF sel[i].hasSnippet THEN sel[i].snippet ELSE GenericSummary)
               /\ fnOut[i].sourceUrl =
                    (IF sel[i].url = EmptyUrl THEN Url("example.com", 0)
                     ELSE sel[i].url)

\* the builder has kept a result without title and one without snippet
C13_Witness ==
  /\ fnPc = "returned" /\ Len(fnOut) = 2 /\ Len(fnIn.searchResults) = 2
  /\ fnOut[1].title = Str("Career story", 0)
  /\ fnOut[2].shortSummary = GenericSummary


\* the entry passes every check the claim names
ValidEntry(e, results) ==
  /\ ~ e.isNull /\ e.indexKind = "int"
  /\ e.index >= 0 /\ e.index < Len(results)
  /\ results[e.index + 1].url # EmptyUrl /\ results[e.index + 1].title # EmptyStr
  /\ e.shortSummary # EmptyStr /\ e.whyItMatches # EmptyStr

\* C14: the summarizer returns one story for each valid entry of the stories
\* array, in the array's order, with title and sourceUrl of results[index]
\* and the entry's own texts; an invalid entry (out of range, result without
\* url or title, empty texts, null, index missing or not an integer) removes
\* only itself.
C14_PerEntryValidation ==
  fnPc = "returned" =>
     LET valid == FilterSeq(fnIn.stories,
                            {e \in Range(fnIn.stories) : ValidEntry(e, fnIn.results)})
     IN  /\ Len(fnOut) = Len(valid)
         /\ \A i \in 1..Len(fnOut) :
               /\ fnOut[i].title = fnIn.results[valid[i].index + 1].title
               /\ fnOut[i].sourceUrl = fnIn.results[valid[i].index + 1].url
               /\ fnOut[i].shortSummary = valid[i].shortSummary
               /\ fnOut[i].whyItMatches = valid[i].whyItMatches


\* C15: from the moment the writes are issued the story list is fixed: no
\* write outcome (success, duplicate key P2002, other error), in any
\* combination, changes it or turns the request into an error, and the list
\* returned is the list that was computed before the first write settled.
C15_PersistenceFrame ==
  [][ pc = "persisting" =>
        /\ stories' = stories /\ stories # << >>
        /\ error' = "none" /\ pc' \in {"persisting", "done"}
        /\ outcome' = outcome ]_vars

\* a request has returned two or more stories after one write was rejected as
\* a duplicate and another with some other error
C15_Witness ==
  /\ op = "stories" /\ pc = "done" /\ Len(stories) >= 2
  /\ writeErrors = {"P2002", "error"} /\ error = "none"


\* the three rules of the claim, for one result and one profile
NoNoise(r) ==
  ~ \E m \in r.marks : \E p \in badPatterns : PhraseIncludes(m, p)
UserMentionsTech(profile) ==
  \E t \in Range(profile.interests) \cup Range(profile.extraInfo) :
     \E k \in userTechKeywords : PhraseIncludes(t, k)
NoForeignTech(r, profile) ==
  (\E m \in r.marks : \E k \in techKeywords : PhraseIncludes(m, k))
     => UserMentionsTech(profile)
OnTopic(r, profile) ==
  \/ \E m \in r.marks : \E k \in mustHaveKeywords : PhraseIncludes(m, k)
  \/ \E tok \in Range(profile.interests) :
        tok \notin ShortTokens /\ \E m \in r.marks : PhraseIncludes(m, tok)

C17_SearchOnlyWithoutAiKey ==
  (op = "stories" /\ pc = "done" /\ Resolves /\ webSearchKey /\ ~ geminiKey) =>
     /\ searchCalls = 1 /\ aiCalls = 0
     /\ selected # << >> =>
          /\ tag = "tavily-only"
          /\ Len(stories) = Len(selected)
          /\ \A i \in 1..Len(stories) :
                stories[i].id.kind = "search" /\ stories[i].from = selected[i].id


\* the stages of a stories request, in the order the claim gives them
StageOf(p) ==
  CASE p = "start" -> 0
    [] p = "searching" -> 1
    [] p = "summarizing" -> 2
    [] p = "persisting" -> 3
    [] OTHER -> 4

\* C18: a stories request moves through load, search (with filter and
\* select), summarize, persist in that order and never back; it makes at most
\* one search call and at most one AI call; the AI call is made only once the
\* search has returned and a result survived filtering and selection; the
\* writes are issued only after the AI call has returned; and when search or
\* filter leave no result the request ends there with no AI call and no write.
C18_StageOrder ==
  /\ [](op = "stories" =>
          /\ searchCalls <= 1 /\ aiCalls <= 1
          /\ (pc = "start" => NothingDone)
          /\ (pc = "searching" =>
                searchCalls = 1 /\ aiCalls = 0 /\ writesIssued = 0
                /\ searchOutcome = "none")
          /\ (aiCalls = 1 =>
                searchCalls = 1 /\ searchOutcome # "none" /\ found > 0
                /\ selected # << >>)
          /\ (pc = "summarizing" =>
                aiCalls = 1 /\ aiOutcome = "none" /\ writesIssued = 0)
          /\ (writesIssued > 0 =>
                aiCalls = 1 /\ aiOutcome # "none" /\ writesIssued = Len(stories))
          /\ (searchOutcome # "none" /\ selected = << >> =>
                pc \in {"done", "failed"} /\ aiCalls = 0 /\ writesIssued = 0))
  /\ [][op = "stories" =>
          /\ StageOf(pc') > StageOf(pc)
          /\ searchCalls' >= searchCalls /\ aiCalls' >= aiCalls
          /\ writesIssued' >= writesIssued]_<<pc, searchCalls, aiCalls, writesIssued>>

\* a request ended right after the filter left none of the results the
\* search had found
C18_Witness ==
  /\ op = "stories" /\ pc = "done" /\ searchCalls = 1
  /\ found > 0 /\ selected = << >> /\ aiCalls = 0 /\ writesIssued = 0


\* C19: when the request persists, one write per returned story has been
\* issued before any has settled; the outstanding writes may settle in any
\* order and with any outcome, whatever the earlier ones did; and the request
\* returns only when none is outstanding.
C19_AllIssuedAllAwaited ==
  op = "stories" =>
     /\ (pc = "persisting" =>
           /\ writesIssued = Len(stories) /\ Len(stories) >= 1
           /\ pending \subseteq 1..Len(stories)
           /\ \A i \in pending, res \in WriteOutcomes : ENABLED WriteSettle(i, res)
           /\ (pending = {} <=> ENABLED StoriesReturn))
     /\ (pc = "done" => pending = {})
     /\ (pc = "done" /\ stories # << >> /\ ~ IsPlaceholder(stories[1])
           => writesIssued = Len(stories))

\* a later write was rejected while an earlier one is still outstanding
C19_Witness ==
  /\ op = "stories" /\ pc = "persisting" /\ Len(stories) >= 3
  /\ 1 \in pending /\ 2 \notin pending /\ 3 \in pending
  /\ "error" \in writeErrors


\* every call has ended and none of its creates is outstanding
AllCallsCompleted ==
  \A c \in Calls : callPc[c] \in {"done", "failed"} /\ callPending[c] = {}

\* C20: once all concurrent generatePathsForProfile calls have completed, a
\* profile for which at least one call was made owns exactly one path for
\* each rank 1, 2, 3; and a call for an unknown profile fails with NOT_FOUND
\* having issued no delete and no create.
C20_ExactlyThreePaths ==
  /\ (AllCallsCompleted /\ (\E c \in Calls : callProfile[c] = "p1"))
        => \A r \in PathRanks : pathRows[r] = 1
  /\ \A c \in Calls :
        (callProfile[c] = "unknown-id" /\ callPc[c] # "start")
           => callPc[c] = "failed" /\ callError[c] = "NOT_FOUND" /\ callOps[c] = 0


\* the answer is one of the whole-response failures the claim lists
WholeResponseFailure(raw) ==
  \/ raw.transport \in {"http-error", "exception"}
  \/ raw.text = << >>
  \/ raw.text \in {<<"junk">>, <<"DOC", "junk">>,
                   <<"FENCE", "json", "\n", "junk", "\n", "FENCE">>}
  \/ raw.doc.kind \in {"invalid", "object-without-stories", "stories-not-array"}

\* the answer is valid JSON wrapped in a fence that carries a language tag
\* other than lower-case json
FencedOtherTag(raw) ==
  /\ raw.transport = "ok" /\ raw.doc.kind = "stories"
  /\ raw.text = <<"FENCE", "JSON", "\n", "DOC", "\n", "FENCE">>

\* what the summarizer returns for the same document without fences
Unwrapped(in) ==
  generateStoriesWithGemini([kind |-> "json", stories |-> in.doc.stories],
                            in.results, in.pathRank, in.revision)

\* the answer is valid JSON wrapped in a bare fence or a json fence
FencedValid(raw) ==
  /\ raw.transport = "ok" /\ raw.doc.kind = "stories"
  /\ raw.text \in {<<"FENCE", "json", "\n", "DOC", "\n", "FENCE">>,
                   <<"FENCE", "\n", "DOC", "\n", "FENCE">>, <<"FENCE", "DOC", "FENCE">>,
                   <<"FENCE", "json", "DOC", "FENCE", " ">>,
                   <<"\n", "FENCE", "json", "\n", "DOC", "\n", "FENCE", "\n">>}

\* C21 as stated: the summarizer never throws; it returns the empty list on
\* a non-success status, a network exception, an empty text, text that is
\* not JSON once the fences are stripped, and JSON whose stories field is
\* missing or not an array; and valid JSON wrapped in code-fence markers
\* gives the stories the same JSON gives unwrapped.
C21_Original ==
  fnPc = "returned" =>
     /\ ~ fnOut.threw
     /\ (WholeResponseFailure(fnIn) => fnOut.stories = << >>)
     /\ (FencedValid(fnIn) \/ FencedOtherTag(fnIn) => fnOut.stories = Unwrapped(fnIn))

\* C21 amended: as stated for the whole-response failures; valid JSON in a
\* bare fence or a fence tagged json (lower case) gives the stories the same
\* JSON gives unwrapped, and valid JSON in a fence with any other tag is not
\* unwrapped and gives the empty list.
C21_Amended ==
  fnPc = "returned" =>
     /\ ~ fnOut.threw
     /\ (WholeResponseFailure(fnIn) => fnOut.stories = << >>)
     /\ (FencedValid(fnIn) => fnOut.stories = Unwrapped(fnIn))
     /\ (FencedOtherTag(fnIn) => fnOut.stories = << >>)

\* fenced JSON with two entries gave two stories
C21_Witness ==
  /\ fnPc = "returned" /\ FencedValid(fnIn)
  /\ fnIn.text = <<"FENCE", "json", "\n", "DOC", "\n", "FENCE">>
  /\ Len(fnOut.stories) = 2


\* every item of the payload is an object with string-or-absent fields
WellFormed(items) ==
  \A r \in Range(items) : r.isObject /\ r.contentIsString

\* the positions of the payload's items that have both a title and a url
Titled(items) ==
  {i \in 1..Len(items) : items[i].title # EmptyStr /\ items[i].url # EmptyUrl}

\* C22: the search client never throws; it returns the empty list on a
\* network exception, a non-success status, a body that is not JSON and a
\* payload without a results array; on success it returns the provider's
\* results that have both a title and a url, each once, in the provider's
\* order.
C22_SearchClient ==
  fnPc = "returned" =>
     /\ ~ fnOut.threw
     /\ (fnIn.kind \in SearchFailures => fnOut.results = << >>)
     /\ (fnIn.kind = "ok" /\ WellFormed(fnIn.results) =>
           /\ {r.id : r \in Range(fnOut.results)} = Titled(fnIn.results)
           /\ \A i, j \in 1..Len(fnOut.results) :
                i < j => fnOut.results[i].id < fnOut.results[j].id
           /\ \A i \in 1..Len(fnOut.results) :
                LET r == fnIn.results[fnOut.results[i].id]
                IN  /\ fnOut.results[i].title = r.title
                    /\ fnOut.results[i].url = r.url
                    /\ fnOut.results[i].snippet = r.content)

\* a payload of three items whose second has no title gave the first and the
\* third, in that order
C22_Witness ==
  /\ fnPc = "returned" /\ fnIn.kind = "ok" /\ WellFormed(fnIn.results)
  /\ Len(fnIn.results) = 3 /\ Titled(fnIn.results) = {1, 3}
  /\ Len(fnOut.results) = 2
  /\ fnOut.results[1].id = 1 /\ fnOut.results[2].id = 3


\* the blocks of a text: its parts between blank lines
RECURSIVE Blocks(_)
Blocks(text) ==
  IF \A i \in 1..Len(text) : text[i] # "\n\n" THEN <<text>>
  ELSE LET k == CHOOSE i \in 1..Len(text) :
                  text[i] = "\n\n" /\ \A j \in 1..(i - 1) : text[j] # "\n\n"
       IN  <<SubSeq(text, 1, k - 1)>> \o Blocks(SubSeq(text, k + 1, Len(text)))

HasBlankLine(text) == \E i \in 1..Len(text) : text[i] = "\n\n"

\* the titles of the results that are not blank, in order
NonBlankTitles(results) ==
  LET all == [i \in 1..Len(results) |-> results[i].title]
  IN  FilterSeq(all, {t \in Range(all) : t \notin {<< >>, <<" ">>}})

\* the texts the template interpolates
Interpolated(in) ==
  {in.profile.currentStatus, in.profile.stage, in.profile.timeline, in.pathLabel}
  \cup (IF NonBlankTitles(in.searchResults) # << >>
        THEN {NonBlankTitles(in.searchResults)[1]} ELSE {})

\* the action template and the title mention of the text
TemplateAndMention(in, out) ==
  LET want == IF in.pathRank = 2 THEN "pick an industry and design a small sales project, ..."
              ELSE IF in.pathRank = 3
                   THEN "explore hybrid roles that combine multiple fields, ..."
              ELSE "search for entry-level roles and internships in your target field, ..."
      nb == NonBlankTitles(in.searchResults)
      at == {i \in 1..Len(out) : out[i] = "start with"}
  IN  /\ \E i \in 1..Len(out) : out[i] = "Next moves:" /\ out[i + 1] = want
      /\ Cardinality(at) = (IF nb = << >> THEN 0 ELSE 1)
      /\ \A i \in at : SubSeq(out, i + 1, Len(out)) = nb[1]

\* C23 as stated: for every profile, rank, label and result list the text is
\* exactly two paragraphs separated by one blank line, the first beginning
\* with "Summary:" and the second with "Next moves:"; the actions are chosen
\* by rank alone; at most one title is mentioned, the first non-blank one.
C23_Original ==
  fnPc = "returned" =>
     /\ Len(Blocks(fnOut)) = 2
     /\ Head(Blocks(fnOut)[1]) = "Summary:"
     /\ Head(Blocks(fnOut)[2]) = "Next moves:"
     /\ TemplateAndMention(fnIn, fnOut)

\* C23 amended: the text is the summary, one blank line and the next moves;
\* it begins with "Summary:", a block of it begins with "Next moves:", the
\* actions are chosen by rank alone and at most one title is mentioned, the
\* first non-blank one; it is exactly two paragraphs when none of the texts
\* put into it (currentStatus, stage, timeline, label, the title mentioned)
\* holds a blank line, and more than two otherwise.
C23_Amended ==
  fnPc = "returned" =>
     LET blocks == Blocks(fnOut)
     IN  /\ Head(blocks[1]) = "Summary:"
         /\ \E b \in 2..Len(blocks) : Head(blocks[b]) = "Next moves:"
         /\ TemplateAndMention(fnIn, fnOut)
         /\ IF \E t \in Interpolated(fnIn) : HasBlankLine(t)
            THEN Len(blocks) > 2
            ELSE Len(blocks) = 2 /\ Head(blocks[2]) = "Next moves:"

\* a rank-3 text for a profile of empty fields whose results are a blank
\* title, then T2, then T1: two paragraphs that mention T2
C23_Witness ==
  /\ fnPc = "returned" /\ fnIn.pathRank = 3
  /\ fnIn.profile.currentStatus = << >> /\ fnIn.pathLabel = << >>
  /\ Len(fnIn.searchResults) = 2
  /\ fnIn.searchResults[1].title = <<" ">> /\ fnIn.searchResults[2].title = <<"T2">>
  /\ Len(Blocks(fnOut)) = 2
  /\ fnOut[Len(fnOut)] = "T2"


\* the tokens of a text that are not whitespace
Visible(text) == FilterSeq(text, Range(text) \ {" ", "\n", "\n\n"})

\* C24: the page shows every block of a non-empty overview, a block being
\* what stands between blank lines ("\n\n"): a block that begins with
\* "Summary:" or "Next moves:" as a box with that label, any other block as a
\* paragraph without label; no block is dropped and no text gives an error.
C24_EveryBlockRendered ==
  fnPc = "returned" /\ fnIn # << >> =>
     LET blocks == Blocks(fnIn)
     IN  /\ ~ fnOut.error
         /\ Len(fnOut.shown) = Len(blocks)
         /\ \A i \in 1..Len(blocks) :
              LET v == Visible(blocks[i])
                  e == fnOut.shown[i]
              IN  IF v # << >> /\ Head(v) \in {"Summary:", "Next moves:"}
                  THEN e.kind = "box" /\ e.label = Head(v) /\ Visible(e.text) = Tail(v)
                  ELSE e.kind = "paragraph" /\ Visible(e.text) = v

\* a summary block, a plain block and a next-moves block gave a box, a
\* paragraph and a box
C24_Witness ==
  /\ fnPc = "returned"
  /\ fnIn = <<"Summary:", "\n\n", "w", "\n\n", "Next moves:">>
  /\ Len(fnOut.shown) = 3
  /\ fnOut.shown[1].kind = "box" /\ fnOut.shown[2].kind = "paragraph"
  /\ fnOut.shown[3].label = "Next moves:"


C26_DistinctIds ==
  op = "stories" /\ pc \in {"persisting", "done"} =>
     \A i, j \in 1..Len(stories) : i # j => stories[i].id # stories[j].id


\* the stories were built from search results, or summarized by the AI
FromSearch(v) == v # << >> /\ \A i \in 1..Len(v) : v[i].id.kind = "search"
FromAI(v) == v # << >> /\ \A i \in 1..Len(v) : v[i].id.kind = "gemini"

\* C27: a generateStories request that has ended has issued one case-study
\* write per story it returns when those are search-derived or AI-summarized
\* stories, and none when it returns a placeholder or the empty list or fails
\* with NOT_FOUND; the writes are tagged gemini-summarized exactly when the
\* stories returned came from the AI summarizer.
C27_WritesMatchStories ==
  op = "stories" /\ pc \in {"done", "failed"} =>
     /\ (FromSearch(stories) \/ FromAI(stories) => writesIssued = Len(stories))
     /\ (~ FromSearch(stories) /\ ~ FromAI(stories) =>
           /\ writesIssued = 0 /\ tag = "none"
           /\ stories = << >> \/ (Len(stories) = 1 /\ IsPlaceholder(stories[1])))
     /\ (error = "NOT_FOUND" => writesIssued = 0 /\ stories = << >>)
     /\ (tag = "gemini-summarized" <=> FromAI(stories))
     /\ (FromSearch(stories) => tag \in {"tavily-only", "tavily-only-fallback"})

\* the AI call failed and the request returned two search-derived stories
\* after two writes tagged as the fallback
C27_Witness ==
  /\ op = "stories" /\ pc = "done" /\ aiOutcome \in GeminiFailures
  /\ FromSearch(stories) /\ Len(stories) = 2
  /\ writesIssued = 2 /\ tag = "tavily-only-fallback"


\* C28: after any sequence of addAction, removeAction and undoRemove calls
\* the actions have pairwise distinct ids; and undoRemove right after
\* removeAction(id) restores the set of actions there was before the removal.
C28_DistinctActionIds ==
  /\ [](\A i, j \in 1..Len(actions) : i # j => actions[i].id # actions[j].id)
  /\ [][(\A id \in 1..(InitialCount + 1) :
            removeAction(id) /\ actions' # actions =>
              Range(actions') \cup {lastRemovedAction'} = Range(actions))
        /\ (undoRemove /\ lastRemovedAction # NoAction =>
              Range(actions') = Range(actions) \cup {lastRemovedAction})]_vars


\* C29: when a work countdown reaches zero the timer stops, sessionsCompleted
\* grows by one and the next mode is longBreak exactly when the new count is
\* a multiple of 4, else shortBreak; when a break countdown reaches zero the
\* mode is work again with the full work time and sessionsCompleted is
\* unchanged; and always 0 <= timeLeft <= the full duration of the mode.
C29_PomodoroCycle ==
  /\ [](0 <= timeLeft /\ timeLeft <= DurationOf(pomodoroMode))
  /\ [][PomodoroTick /\ timeLeft <= 1 =>
          IF pomodoroMode = "work"
          THEN /\ ~ pomodoroRunning'
               /\ sessionsCompleted' = sessionsCompleted + 1
               /\ pomodoroMode' = IF sessionsCompleted' % 4 = 0
                                  THEN "longBreak" ELSE "shortBreak"
          ELSE /\ pomodoroMode' = "work" /\ timeLeft' = WORK_TIME
               /\ sessionsCompleted' = sessionsCompleted]_vars


\* C30: in pomodoro mode, each time the countdown reaches zero the phase
\* changes (work to break, break to work), seconds is reloaded with the
\* duration of the phase entered, and pomodoroCount grows by one exactly when
\* the phase that ended was work.
C30_PhasesAlternate ==
  [][TrackerTick /\ seconds <= 0 =>
       /\ pomodoroPhase' = (IF pomodoroPhase = "work" THEN "break" ELSE "work")
       /\ seconds' = (IF pomodoroPhase' = "work" THEN workDuration ELSE breakDuration)
       /\ pomodoroCount' = pomodoroCount + (IF pomodoroPhase = "work" THEN 1 ELSE 0)]_vars

=============================================================================
